---- MODULE Spec2Model ----
(***************************************************************************)
(* flash-rover firmware: the Doorbell command server (bsp::Server), the    *)
(* dispatcher (Loop), the SPI NOR flash driver (bsp::Xflash) and the DSS   *)
(* controller script that pokes the Doorbell through the debug probe.      *)
(*                                                                         *)
(* A uint32_t is a pair <<hi, lo>> of 16-bit limbs, so that 0xFFFFFFFF and *)
(* the carries of 32- and 64-bit sums are represented exactly.             *)
(***************************************************************************)
EXTENDS Integers, Sequences, FiniteSets, TLC

\* ------------------------------------------------------------- bounds

\* The controller script issues at most this many commands in one run.
MaxCmds == 2

\* ------------------------------------------------- program constants

CmdNone == 0
CmdXflashInfo == 192
CmdSectorErase == 193
CmdMassErase == 194
CmdReadBlock == 195
CmdWriteBlock == 196

RspNone == 0
RspOk == 208
RspXflashInfo == 209
RspError == 128
RspErrorSpi == 129
RspErrorXflash == 130
RspErrorBufOverflow == 131

XFLASH_BUF_SIZE == 4096
programPageSize == 256
eraseSectorSize == 4096

OpProgram == 2
OpRead == 3
OpReadStatus == 5
OpWriteEnable == 6
OpErase4k == 32
OpEraseAll == 199
OpMdid == 144
OpDp == 185
OpRdp == 171

\* ------------------------------------------------- uint32_t arithmetic

Limb == 2^16

U32(hi, lo) == <<hi, lo>>

\* A value below 2^31 as a uint32_t.
ToU32(n) == <<n \div Limb, n % Limb>>

Zero32 == U32(0, 0)

Max32 == U32(Limb - 1, Limb - 1)

\* The 64-bit sum of two uint32_t: <<carry, hi, lo>>, carry being bit 32.
Add64(a, b) ==
    LET lo == a[2] + b[2]
        hi == a[1] + b[1] + (lo \div Limb)
    IN  <<hi \div Limb, hi % Limb, lo % Limb>>

\* uint32_t addition, wrapping modulo 2^32.
Add32(a, b) == LET s == Add64(a, b) IN <<s[2], s[3]>>

\* uint32_t subtraction, wrapping modulo 2^32.
Sub32(a, b) ==
    LET lo == a[2] - b[2]
        bw == IF lo < 0 THEN 1 ELSE 0
        hi == a[1] - b[1] - bw
    IN  <<(hi + Limb) % Limb, (lo + Limb) % Limb>>

Lt32(a, b) == a[1] < b[1] \/ (a[1] = b[1] /\ a[2] < b[2])

Le32(a, b) == a = b \/ Lt32(a, b)

Gt32(a, b) == Lt32(b, a)

\* a / 2^12 and a % 2^8 of a uint32_t (4096 and 256 divide 2^16).
DivSector(a) == a[1] * (Limb \div eraseSectorSize) + (a[2] \div eraseSectorSize)

ModPage(a) == a[2] % programPageSize

\* ------------------------------------------------------ data model

Command(kind, arg0, arg1, arg2) ==
    [kind |-> kind, arg0 |-> arg0, arg1 |-> arg1, arg2 |-> arg2]

Response(kind, arg0, arg1, arg2) ==
    [kind |-> kind, arg0 |-> arg0, arg1 |-> arg1, arg2 |-> arg2]

\* Command cmd{} and Response rsp: the member initialisers.
NoCommand == Command(CmdNone, Zero32, Zero32, Zero32)

NoResponse == Response(RspNone, Zero32, Zero32, Zero32)

RecognizedKinds ==
    {CmdXflashInfo, CmdMassErase, CmdSectorErase, CmdReadBlock, CmdWriteBlock}

XflashInfo(deviceSize, manfId, devId, supported) ==
    [deviceSize |-> deviceSize, manfId |-> manfId, devId |-> devId,
     supported |-> supported]

\* The static table of supported parts.
supportedHw ==
    { XflashInfo(U32(32, 0), 194, 21, FALSE),   \* 0x200000, 0xC2, 0x15
      XflashInfo(U32(16, 0), 194, 20, FALSE),   \* 0x100000, 0xC2, 0x14
      XflashInfo(U32(8, 0), 239, 18, FALSE),    \* 0x080000, 0xEF, 0x12
      XflashInfo(U32(4, 0), 239, 17, FALSE) }   \* 0x040000, 0xEF, 0x11

VARIABLES
    doorbell,   \* the shared Doorbell: [cmd, rsp]
    xflashbuf,  \* the transfer buffer, abstracted to what last filled it
    fpc,        \* firmware: position in Loop::run and the calls below it
    stack,      \* firmware: return positions of the driver calls in progress
    cmd,        \* firmware: the Command local of waitForCommand / Loop::run
    rsp,        \* firmware: the Response local of Loop::run
    loc,        \* firmware: the locals of the driver operation in progress
    xflash_,    \* Xflash::xflash_ : [info, valid]
    csn,        \* chip select asserted (the CSN pin driven low)
    counts,     \* Power::counts_ : the dependency counters
    chip,       \* the flash chip: [wip, wel, pd]
    bus,        \* the SPI exchanges of the current iteration of Loop::run
    cpc,        \* controller: position in sendCommand
    ccmd,       \* controller: the cmd argument of sendCommand
    crsp,       \* controller: the rsp object sendCommand builds
    issued,     \* number of commands the controller has triggered
    accepted,   \* number of commands waitForCommand has returned
    responded,  \* number of times rsp.kind went from empty to non-empty
    rc,         \* checkAddressRange: its arguments and, once done, its result
    part,       \* the flash chip: the <<manufacturer, device>> ids it reports
    probed,     \* the ids the constructor's own verifyPart read, if it read any
    prcm,       \* the PRCM hardware: domains on, peripheral clocks running,
                \* and the driverlib calls of the last Power operation
    handles,    \* the DomainHandle and PeriphHandle objects alive, per resource
    pre,        \* the state at the start of a sequence of handle operations
    balance     \* per resource: setDependency calls minus clearDependency calls

powerVars == <<prcm, handles, pre, balance>>

vars ==
    <<doorbell, xflashbuf, fpc, stack, cmd, rsp, loc, xflash_, csn, counts,
      chip, bus, cpc, ccmd, crsp, issued, accepted, responded, rc, part,
      probed, powerVars>>

fwVars == <<fpc, stack, cmd, rsp, loc, xflash_, csn, counts, bus, accepted,
            responded>>

ctrlVars == <<cpc, ccmd, crsp, issued>>

\* ------------------------------------------------------ the flash chip

\* The opcodes that start a program or an erase inside the chip.
BusyOpcodes == {OpProgram, OpErase4k, OpEraseAll}

\* What one opcode does to the chip.  In deep power-down the chip ignores
\* everything but the release opcode; a program or erase needs the write
\* enable latch, sets write-in-progress and clears the latch.
ChipAfter(c, op) ==
    IF c.pd
    THEN IF op = OpRdp THEN [c EXCEPT !.pd = FALSE] ELSE c
    ELSE IF op = OpDp THEN [c EXCEPT !.pd = TRUE]
    ELSE IF op = OpWriteEnable /\ ~c.wip THEN [c EXCEPT !.wel = TRUE]
    ELSE IF op \in BusyOpcodes /\ c.wel /\ ~c.wip
         THEN [c EXCEPT !.wip = TRUE, !.wel = FALSE]
    ELSE c

\* The write-in-progress bit a status read can return: the chip's own bit,
\* or either level of the undriven data line when the chip is powered down.
StatusWip(c) == IF c.pd THEN BOOLEAN ELSE {c.wip}

\* The chip finishes its program or erase.
ChipDone ==
    /\ chip.wip
    /\ chip' = [chip EXCEPT !.wip = FALSE]
    /\ UNCHANGED <<doorbell, xflashbuf, fwVars, ctrlVars, rc, part, probed, powerVars>>

\* --------------------------------------------------- initial state

Domains == {"rfcore", "serial", "periph", "vims", "sysbus", "cpu"}

Periphs ==
    {"timer0", "timer1", "timer2", "timer3", "ssi0", "ssi1", "uart0", "uart1",
     "i2c0", "crypto", "trng", "pka", "udma", "gpio", "i2s"}

\* Power::counts_ once Loop is constructed: Spi holds Ssi0 (under Serial) and
\* Xflash holds Gpio (under Periph).
CountsAfterConstruction ==
    [domains |-> [d \in Domains |-> IF d \in {"serial", "periph"} THEN 1 ELSE 0],
     periphs |-> [p \in Periphs |-> IF p \in {"ssi0", "gpio"} THEN 1 ELSE 0]]

\* The PRCM state Power has commanded once Loop is constructed.
PrcmAfterConstruction ==
    [on |-> [d \in Domains |-> d \in {"serial", "periph"}],
     run |-> [p \in Periphs |-> p \in {"ssi0", "gpio"}],
     calls |-> <<>>]

\* The handles alive once Loop is constructed: Spi::periph_ and
\* Xflash::periph_.
HandlesAfterConstruction ==
    [domains |-> [d \in Domains |-> 0],
     periphs |-> [p \in Periphs |-> IF p \in {"ssi0", "gpio"} THEN 1 ELSE 0]]

\* Power::counts_ as Power::Power leaves it, and the PRCM untouched.
NoCounts == [domains |-> [d \in Domains |-> 0], periphs |-> [p \in Periphs |-> 0]]

PrcmOff ==
    [on |-> [d \in Domains |-> FALSE], run |-> [p \in Periphs |-> FALSE],
     calls |-> <<>>]

\* No sequence of handle operations has been started.
NoMark ==
    [marked |-> FALSE, counts |-> NoCounts, on |-> PrcmOff.on, run |-> PrcmOff.run,
     handles |-> NoCounts, paired |-> TRUE, ops |-> 0]

\* No id bytes have been read.
NoProbe == <<>>

\* Xflash::xflash_ and the chip once Xflash is constructed.  A part of the
\* table that was probed is left awake with its entry cached.  Otherwise
\* close() has sent the power-down command and waitPowerDown has called
\* verifyPart until it failed: the ids and validity are those of the last
\* readInfo (the part's ids, 0xFF 0xFF from the undriven line, or the
\* zeroes of a first read that failed), and a part of the table that
\* still answered has its entry cached.  Of the closed outcomes the set
\* holds those of a part that is not in the table and, for a part of the
\* table whose powerStandby failed, the one that differs from them in
\* what Loop::run reads: the MX25R8035F matched while powering down.
AfterConstruction ==
    LET awake == [wip |-> FALSE, wel |-> FALSE, pd |-> FALSE]
        down == [wip |-> FALSE, wel |-> FALSE, pd |-> TRUE]
    IN  { [x |-> [info |-> [hw EXCEPT !.supported = TRUE], valid |-> TRUE],
           c |-> awake,
           p |-> <<hw.manfId, hw.devId>>, pr |-> <<hw.manfId, hw.devId>>] :
          hw \in supportedHw }
        \cup
        { [x |-> [info |-> [hw EXCEPT !.supported = TRUE], valid |-> TRUE],
           c |-> down,
           p |-> <<hw.manfId, hw.devId>>, pr |-> NoProbe] :
          hw \in { h \in supportedHw : h.manfId = 194 /\ h.devId = 20 } }
        \cup
        { [x |-> [info |-> XflashInfo(Zero32, v[1], v[2], FALSE), valid |-> v[3]],
           c |-> down,
           p |-> <<1, 2>>, pr |-> v[4]] :
          v \in { <<1, 2, TRUE, <<1, 2>>>>, <<1, 2, FALSE, <<1, 2>>>>,
                  <<255, 255, TRUE, <<1, 2>>>>, <<0, 0, FALSE, NoProbe>> } }

NoLocals ==
    [len |-> Zero32, offset |-> Zero32, addr |-> Zero32, buf |-> 0, ilen |-> 0,
     i |-> 0, numsectors |-> 0, ret |-> TRUE, wip |-> FALSE]

NoRange ==
    [offset |-> Zero32, length |-> Zero32, done |-> FALSE, result |-> FALSE,
     sent |-> 0]

\* The state once main() has constructed Loop (Server's constructor has
\* cleared both kind fields) and is about to enter Loop::run.
Constructed ==
    /\ doorbell = [cmd |-> NoCommand, rsp |-> NoResponse]
    /\ xflashbuf = [src |-> "init", offset |-> Zero32, n |-> 0]
    /\ fpc = "wfc_poll"
    /\ stack = <<>>
    /\ cmd = NoCommand
    /\ rsp = NoResponse
    /\ loc = NoLocals
    /\ \E a \in AfterConstruction :
          xflash_ = a.x /\ chip = a.c /\ part = a.p /\ probed = a.pr
    /\ csn = FALSE
    /\ counts = CountsAfterConstruction
    /\ prcm = PrcmAfterConstruction
    /\ handles = HandlesAfterConstruction
    /\ pre = NoMark
    /\ balance = HandlesAfterConstruction
    /\ bus = <<>>
    /\ cpc = "idle"
    /\ ccmd = NoCommand
    /\ crsp = NoResponse
    /\ issued = 0
    /\ accepted = 0
    /\ responded = 0

Init == Constructed /\ rc = NoRange

\* ------------------------------------------------ the controller script

\* The commands the controller may pass to sendCommand: the five kinds the
\* script builds, with in-range, out-of-range, overflowing and over-long
\* arguments, and one kind the firmware does not know.
CtrlCommands ==
    { Command(CmdXflashInfo, Zero32, Zero32, Zero32),
      Command(CmdMassErase, Zero32, Zero32, Zero32),
      Command(CmdSectorErase, ToU32(4096), ToU32(8192), Zero32),
      Command(CmdReadBlock, Zero32, ToU32(4), U32(0, 7)),
      Command(CmdReadBlock, Max32, ToU32(2), Zero32),
      Command(CmdReadBlock, Zero32, ToU32(XFLASH_BUF_SIZE + 1), Zero32),
      Command(CmdWriteBlock, ToU32(254), ToU32(4), Zero32),
      Command(CmdWriteBlock, U32(32, 0), ToU32(1), Zero32),
      Command(CmdWriteBlock, Zero32, ToU32(XFLASH_BUF_SIZE + 1), Zero32),
      Command(CmdWriteBlock + 1, ToU32(1), ToU32(2), ToU32(3)) }

Min(a, b) == IF a < b THEN a ELSE b

\* A caller (info, sectorErase, massErase, read, write_fixed) builds the
\* command object and calls sendCommand.
CtrlCall ==
    /\ cpc = "idle"
    /\ issued < MaxCmds
    /\ \E c \in CtrlCommands :
        /\ ccmd' = c
        /\ cpc' = IF c.kind = CmdWriteBlock THEN "w_buf" ELSE "w_arg2"
    /\ crsp' = NoResponse
    /\ UNCHANGED <<doorbell, xflashbuf, fwVars, chip, issued, rc, part, probed, powerVars>>

\* write_fixed copies the next chunk into XFLASH_BUF before the command.
CtrlWriteBuf ==
    /\ cpc = "w_buf"
    /\ xflashbuf' = [src |-> "host", offset |-> Zero32,
                     n |-> Min(ccmd.arg1[1] * Limb + ccmd.arg1[2], XFLASH_BUF_SIZE)]
    /\ cpc' = "w_arg2"
    /\ UNCHANGED <<doorbell, fwVars, chip, ccmd, crsp, issued, rc, part, probed, powerVars>>

\* Mutant of CtrlWriteArg2: the trigger field is written with the first
\* argument instead of last.
CtrlWriteKindFirst ==
    /\ cpc = "w_arg2"
    /\ doorbell' = [doorbell EXCEPT !.cmd.kind = ccmd.kind, !.cmd.arg2 = ccmd.arg2]
    /\ cpc' = "w_arg1"
    /\ UNCHANGED <<xflashbuf, fwVars, chip, ccmd, crsp, issued, rc, part, probed, powerVars>>

CtrlWriteArg2 ==
    /\ cpc = "w_arg2"
    /\ doorbell' = [doorbell EXCEPT !.cmd.arg2 = ccmd.arg2]
    /\ cpc' = "w_arg1"
    /\ UNCHANGED <<xflashbuf, fwVars, chip, ccmd, crsp, issued, rc, part, probed, powerVars>>

CtrlWriteArg1 ==
    /\ cpc = "w_arg1"
    /\ doorbell' = [doorbell EXCEPT !.cmd.arg1 = ccmd.arg1]
    /\ cpc' = "w_arg0"
    /\ UNCHANGED <<xflashbuf, fwVars, chip, ccmd, crsp, issued, rc, part, probed, powerVars>>

CtrlWriteArg0 ==
    /\ cpc = "w_arg0"
    /\ doorbell' = [doorbell EXCEPT !.cmd.arg0 = ccmd.arg0]
    /\ cpc' = "w_kind"
    /\ UNCHANGED <<xflashbuf, fwVars, chip, ccmd, crsp, issued, rc, part, probed, powerVars>>

\* Kind must be written last to trigger the command.
CtrlWriteKind ==
    /\ cpc = "w_kind"
    /\ doorbell' = [doorbell EXCEPT !.cmd.kind = ccmd.kind]
    /\ cpc' = "wait_consumed"
    /\ issued' = issued + 1
    /\ UNCHANGED <<xflashbuf, fwVars, chip, ccmd, crsp, rc, part, probed, powerVars>>

\* Wait for command to be consumed: the poll that reads 0 leaves the loop.
CtrlWaitConsumed ==
    /\ cpc = "wait_consumed"
    /\ doorbell.cmd.kind = CmdNone
    /\ cpc' = "wait_rsp"
    /\ UNCHANGED <<doorbell, xflashbuf, fwVars, chip, ccmd, crsp, issued, rc, part, probed, powerVars>>

\* Mutant of CtrlWaitResponse: the response is read without waiting for
\* rsp.kind to become non-zero.
CtrlSkipsWaitResponse ==
    /\ cpc = "wait_rsp"
    /\ cpc' = "r_kind"
    /\ UNCHANGED <<doorbell, xflashbuf, fwVars, chip, ccmd, crsp, issued, rc, part, probed, powerVars>>

\* Command consumed, wait for response: the poll that reads non-zero leaves.
CtrlWaitResponse ==
    /\ cpc = "wait_rsp"
    /\ doorbell.rsp.kind # RspNone
    /\ cpc' = "r_kind"
    /\ UNCHANGED <<doorbell, xflashbuf, fwVars, chip, ccmd, crsp, issued, rc, part, probed, powerVars>>

CtrlReadKind ==
    /\ cpc = "r_kind"
    /\ crsp' = [crsp EXCEPT !.kind = doorbell.rsp.kind]
    /\ cpc' = "r_arg0"
    /\ UNCHANGED <<doorbell, xflashbuf, fwVars, chip, ccmd, issued, rc, part, probed, powerVars>>

CtrlReadArg0 ==
    /\ cpc = "r_arg0"
    /\ crsp' = [crsp EXCEPT !.arg0 = doorbell.rsp.arg0]
    /\ cpc' = "r_arg1"
    /\ UNCHANGED <<doorbell, xflashbuf, fwVars, chip, ccmd, issued, rc, part, probed, powerVars>>

CtrlReadArg1 ==
    /\ cpc = "r_arg1"
    /\ crsp' = [crsp EXCEPT !.arg1 = doorbell.rsp.arg1]
    /\ cpc' = "r_arg2"
    /\ UNCHANGED <<doorbell, xflashbuf, fwVars, chip, ccmd, issued, rc, part, probed, powerVars>>

CtrlReadArg2 ==
    /\ cpc = "r_arg2"
    /\ crsp' = [crsp EXCEPT !.arg2 = doorbell.rsp.arg2]
    /\ cpc' = "consume"
    /\ UNCHANGED <<doorbell, xflashbuf, fwVars, chip, ccmd, issued, rc, part, probed, powerVars>>

\* Consume response, and return it to the caller.
CtrlConsume ==
    /\ cpc = "consume"
    /\ doorbell' = [doorbell EXCEPT !.rsp.kind = RspNone]
    /\ cpc' = "idle"
    /\ UNCHANGED <<xflashbuf, fwVars, chip, ccmd, crsp, issued, rc, part, probed, powerVars>>

\* ------------------------------------------------------ bsp::Server

\* What a firmware step that stays inside the firmware leaves alone.
Private == UNCHANGED <<doorbell, xflashbuf, chip, ctrlVars, rc, part, probed, powerVars>>

\* while (doorbell_.cmd.kind == Command::Kind::None);
\* the read that finds a kind leaves the loop.
WfcPoll ==
    /\ fpc = "wfc_poll"
    /\ doorbell.cmd.kind # CmdNone
    /\ fpc' = "wfc_switch"
    /\ UNCHANGED <<stack, cmd, rsp, loc, xflash_, csn, counts, bus, accepted,
                   responded>>
    /\ Private

\* Mutant of WfcSwitch: every kind that is not None is taken as a command.
WfcSwitchAny ==
    /\ fpc = "wfc_switch"
    /\ fpc' = "wfc_copy_kind"
    /\ UNCHANGED <<stack, cmd, rsp, loc, xflash_, csn, counts, bus, accepted,
                   responded>>
    /\ Private

\* switch (doorbell_.cmd.kind): a second read of the volatile field.
WfcSwitch ==
    /\ fpc = "wfc_switch"
    /\ fpc' = IF doorbell.cmd.kind \in RecognizedKinds
              THEN "wfc_copy_kind" ELSE "wfc_clear_invalid"
    /\ UNCHANGED <<stack, cmd, rsp, loc, xflash_, csn, counts, bus, accepted,
                   responded>>
    /\ Private

WfcCopyKind ==
    /\ fpc = "wfc_copy_kind"
    /\ cmd' = [cmd EXCEPT !.kind = doorbell.cmd.kind]
    /\ fpc' = "wfc_copy_arg0"
    /\ UNCHANGED <<stack, rsp, loc, xflash_, csn, counts, bus, accepted, responded>>
    /\ Private

WfcCopyArg0 ==
    /\ fpc = "wfc_copy_arg0"
    /\ cmd' = [cmd EXCEPT !.arg0 = doorbell.cmd.arg0]
    /\ fpc' = "wfc_copy_arg1"
    /\ UNCHANGED <<stack, rsp, loc, xflash_, csn, counts, bus, accepted, responded>>
    /\ Private

WfcCopyArg1 ==
    /\ fpc = "wfc_copy_arg1"
    /\ cmd' = [cmd EXCEPT !.arg1 = doorbell.cmd.arg1]
    /\ fpc' = "wfc_copy_arg2"
    /\ UNCHANGED <<stack, rsp, loc, xflash_, csn, counts, bus, accepted, responded>>
    /\ Private

\* Mutant of WfcCopyArg2: the command is returned right after the copy,
\* without the clear of cmd.kind.
WfcCopyArg2Returns ==
    /\ fpc = "wfc_copy_arg2"
    /\ cmd' = [cmd EXCEPT !.arg2 = doorbell.cmd.arg2]
    /\ fpc' = "dispatch"
    /\ accepted' = accepted + 1
    /\ UNCHANGED <<stack, rsp, loc, xflash_, csn, counts, bus, responded>>
    /\ Private

WfcCopyArg2 ==
    /\ fpc = "wfc_copy_arg2"
    /\ cmd' = [cmd EXCEPT !.arg2 = doorbell.cmd.arg2]
    /\ fpc' = "wfc_clear"
    /\ UNCHANGED <<stack, rsp, loc, xflash_, csn, counts, bus, accepted, responded>>
    /\ Private

\* doorbell_.cmd.kind = Command::Kind::None; return cmd;
WfcClear ==
    /\ fpc = "wfc_clear"
    /\ doorbell' = [doorbell EXCEPT !.cmd.kind = CmdNone]
    /\ fpc' = "dispatch"
    /\ accepted' = accepted + 1
    /\ UNCHANGED <<xflashbuf, stack, cmd, rsp, loc, xflash_, csn, counts, bus,
                   responded, chip, ctrlVars, rc, part, probed, powerVars>>

\* Mutant of WfcClearInvalid: the invalid command is cleared and returned
\* to Loop::run instead of being dropped.
WfcInvalidReturned ==
    /\ fpc = "wfc_clear_invalid"
    /\ doorbell' = [doorbell EXCEPT !.cmd.kind = CmdNone]
    /\ fpc' = "dispatch"
    /\ accepted' = accepted + 1
    /\ UNCHANGED <<xflashbuf, stack, cmd, rsp, loc, xflash_, csn, counts, bus,
                   responded, chip, ctrlVars, rc, part, probed, powerVars>>

\* Invalid command, clear command and wait again.
WfcClearInvalid ==
    /\ fpc = "wfc_clear_invalid"
    /\ doorbell' = [doorbell EXCEPT !.cmd.kind = CmdNone]
    /\ fpc' = "wfc_poll"
    /\ UNCHANGED <<xflashbuf, stack, cmd, rsp, loc, xflash_, csn, counts, bus,
                   accepted, responded, chip, ctrlVars, rc, part, probed, powerVars>>

\* Mutant of SrArg0: rsp.kind is written together with the first argument.
SrKindFirst ==
    /\ fpc = "sr_arg0"
    /\ doorbell' = [doorbell EXCEPT !.rsp.kind = rsp.kind, !.rsp.arg0 = rsp.arg0]
    /\ fpc' = "sr_arg1"
    /\ UNCHANGED <<xflashbuf, stack, cmd, rsp, loc, xflash_, csn, counts, bus,
                   accepted, responded, chip, ctrlVars, rc, part, probed, powerVars>>

SrArg0 ==
    /\ fpc = "sr_arg0"
    /\ doorbell' = [doorbell EXCEPT !.rsp.arg0 = rsp.arg0]
    /\ fpc' = "sr_arg1"
    /\ UNCHANGED <<xflashbuf, stack, cmd, rsp, loc, xflash_, csn, counts, bus,
                   accepted, responded, chip, ctrlVars, rc, part, probed, powerVars>>

SrArg1 ==
    /\ fpc = "sr_arg1"
    /\ doorbell' = [doorbell EXCEPT !.rsp.arg1 = rsp.arg1]
    /\ fpc' = "sr_arg2"
    /\ UNCHANGED <<xflashbuf, stack, cmd, rsp, loc, xflash_, csn, counts, bus,
                   accepted, responded, chip, ctrlVars, rc, part, probed, powerVars>>

SrArg2 ==
    /\ fpc = "sr_arg2"
    /\ doorbell' = [doorbell EXCEPT !.rsp.arg2 = rsp.arg2]
    /\ fpc' = "sr_kind"
    /\ UNCHANGED <<xflashbuf, stack, cmd, rsp, loc, xflash_, csn, counts, bus,
                   accepted, responded, chip, ctrlVars, rc, part, probed, powerVars>>

\* Kind must be set last, this will trigger the response.
SrKind ==
    /\ fpc = "sr_kind"
    /\ doorbell' = [doorbell EXCEPT !.rsp.kind = rsp.kind]
    /\ fpc' = "sr_wait"
    /\ responded' = IF doorbell.rsp.kind = RspNone /\ rsp.kind # RspNone
                    THEN responded + 1 ELSE responded
    /\ UNCHANGED <<xflashbuf, stack, cmd, rsp, loc, xflash_, csn, counts, bus,
                   accepted, chip, ctrlVars, rc, part, probed, powerVars>>

\* Mutant of SrWait: sendResponse returns without waiting for rsp.kind to
\* be cleared.
SrNoWait ==
    /\ fpc = "sr_wait"
    /\ fpc' = "wfc_poll"
    /\ cmd' = NoCommand
    /\ rsp' = NoResponse
    /\ loc' = NoLocals
    /\ bus' = <<>>
    /\ UNCHANGED <<stack, xflash_, csn, counts, accepted, responded>>
    /\ Private

\* Wait until response has been consumed; sendResponse then returns and
\* Loop::run starts its next iteration with fresh locals.
SrWait ==
    /\ fpc = "sr_wait"
    /\ doorbell.rsp.kind = RspNone
    /\ fpc' = "wfc_poll"
    /\ cmd' = NoCommand
    /\ rsp' = NoResponse
    /\ loc' = NoLocals
    /\ bus' = <<>>
    /\ UNCHANGED <<stack, xflash_, csn, counts, accepted, responded>>
    /\ Private

\* ------------------------------------------------------ bsp::Xflash

\* One SPI exchange as the bus sees it: what ("flush", "write", "read"),
\* the opcode and 24-bit address of a command header, the byte count, the
\* position in the transfer buffer the bytes of a page program come from,
\* the level of chip select while it happens, and what Spi::read or
\* Spi::write returned for it.
Exchange(x, op, addr, n) ==
    [x |-> x, op |-> op, addr |-> addr, n |-> n, buf |-> 0, csn |-> csn,
     ok |-> TRUE]

\* The exchange appended to the log; a status poll that repeats the poll
\* just logged is not logged again.
Logged(e) ==
    IF /\ e.op = OpReadStatus
       /\ Len(bus) >= 2
       /\ e \in {bus[Len(bus) - 1], bus[Len(bus)]}
    THEN bus
    ELSE Append(bus, e)

\* static_cast<uint8_t>(offset >> 16), (offset >> 8), (offset): the three
\* address bytes of a command header keep the low 24 bits.
Addr24(offset) == <<offset[1] % 256, offset[2]>>

\* A call of a driver function, and its return to the caller.
Call(entry, back) == fpc' = entry /\ stack' = <<back>> \o stack

Return(r) ==
    /\ fpc' = Head(stack)
    /\ stack' = Tail(stack)
    /\ loc' = [loc EXCEPT !.ret = r]

\* Xflash::select / Xflash::deselect drive the CSN pin.
Select == csn' = TRUE

Deselect == csn' = FALSE

\* --- waitReady

\* Throw away garbage: select(); spi_.flush(); deselect();
WaitReadySelectFlush ==
    /\ fpc = "wr_select1"
    /\ Select
    /\ fpc' = "wr_flush"
    /\ UNCHANGED <<stack, cmd, rsp, loc, xflash_, counts, bus, accepted, responded>>
    /\ Private

WaitReadyFlush ==
    /\ fpc = "wr_flush"
    /\ bus' = Logged(Exchange("flush", 0, Zero32, 0))
    /\ fpc' = "wr_deselect1"
    /\ UNCHANGED <<stack, cmd, rsp, loc, xflash_, csn, counts, accepted, responded>>
    /\ Private

WaitReadyDeselectFlush ==
    /\ fpc = "wr_deselect1"
    /\ Deselect
    /\ fpc' = "wr_select2"
    /\ UNCHANGED <<stack, cmd, rsp, loc, xflash_, counts, bus, accepted, responded>>
    /\ Private

WaitReadySelect ==
    /\ fpc = "wr_select2"
    /\ Select
    /\ fpc' = "wr_write"
    /\ UNCHANGED <<stack, cmd, rsp, loc, xflash_, counts, bus, accepted, responded>>
    /\ Private

WaitReadyWrite ==
    /\ fpc = "wr_write"
    /\ bus' = Logged(Exchange("write", OpReadStatus, Zero32, 1))
    /\ fpc' = "wr_read"
    /\ UNCHANGED <<stack, cmd, rsp, loc, xflash_, csn, counts, accepted, responded>>
    /\ Private

\* bool ret = spi_.read(&rbuf, sizeof(rbuf)): the exchange fails, or rbuf
\* holds the status byte and its write-in-progress bit.
WaitReadyRead ==
    /\ fpc = "wr_read"
    /\ \E ok \in BOOLEAN, w \in StatusWip(chip) :
        /\ loc' = [loc EXCEPT !.ret = ok, !.wip = IF ok THEN w ELSE FALSE]
        /\ bus' = Logged([Exchange("read", OpReadStatus, Zero32, 1)
                             EXCEPT !.ok = ok])
    /\ fpc' = "wr_deselect2"
    /\ UNCHANGED <<stack, cmd, rsp, xflash_, csn, counts, accepted, responded>>
    /\ Private

\* Mutant of WaitReadyDeselect: the test of the write-in-progress bit is
\* inverted.
WaitReadyDeselectInverted ==
    /\ fpc = "wr_deselect2"
    /\ Deselect
    /\ IF ~loc.ret THEN Return(FALSE)
       ELSE IF loc.wip THEN Return(TRUE)
       ELSE fpc' = "wr_select2" /\ UNCHANGED <<stack, loc>>
    /\ UNCHANGED <<cmd, rsp, xflash_, counts, bus, accepted, responded>>
    /\ Private

\* Mutant of WaitReadyDeselect: a failed status read is tried again.
WaitReadyDeselectRetries ==
    /\ fpc = "wr_deselect2"
    /\ Deselect
    /\ IF loc.ret /\ ~loc.wip THEN Return(TRUE)
       ELSE fpc' = "wr_select2" /\ UNCHANGED <<stack, loc>>
    /\ UNCHANGED <<cmd, rsp, xflash_, counts, bus, accepted, responded>>
    /\ Private

\* deselect(); then return false on a failed read, true when the part is
\* not busy, and poll again otherwise.
WaitReadyDeselect ==
    /\ fpc = "wr_deselect2"
    /\ Deselect
    /\ IF ~loc.ret THEN Return(FALSE)
       ELSE IF ~loc.wip THEN Return(TRUE)
       ELSE fpc' = "wr_select2" /\ UNCHANGED <<stack, loc>>
    /\ UNCHANGED <<cmd, rsp, xflash_, counts, bus, accepted, responded>>
    /\ Private

\* --- writeEnable

WriteEnableSelect ==
    /\ fpc = "we_select"
    /\ Select
    /\ fpc' = "we_write"
    /\ UNCHANGED <<stack, cmd, rsp, loc, xflash_, counts, bus, accepted, responded>>
    /\ Private

WriteEnableWrite ==
    /\ fpc = "we_write"
    /\ bus' = Logged(Exchange("write", OpWriteEnable, Zero32, 1))
    /\ chip' = ChipAfter(chip, OpWriteEnable)
    /\ fpc' = "we_deselect"
    /\ UNCHANGED <<doorbell, xflashbuf, stack, cmd, rsp, loc, xflash_, csn, counts,
                   accepted, responded, ctrlVars, rc, part, probed, powerVars>>

\* spi_.write always reports success, and so does writeEnable.
WriteEnableDeselect ==
    /\ fpc = "we_deselect"
    /\ Deselect
    /\ Return(TRUE)
    /\ UNCHANGED <<cmd, rsp, xflash_, counts, bus, accepted, responded>>
    /\ Private

\* --- read(buf, len, offset)

ReadEntry ==
    /\ fpc = "rd_entry"
    /\ Call("wr_select1", "rd_ready")
    /\ UNCHANGED <<cmd, rsp, loc, xflash_, csn, counts, bus, accepted, responded>>
    /\ Private

ReadReady ==
    /\ fpc = "rd_ready"
    /\ IF ~loc.ret
       THEN Return(FALSE) /\ UNCHANGED csn
       ELSE Select /\ fpc' = "rd_write" /\ UNCHANGED <<stack, loc>>
    /\ UNCHANGED <<cmd, rsp, xflash_, counts, bus, accepted, responded>>
    /\ Private

ReadWrite ==
    /\ fpc = "rd_write"
    /\ bus' = Logged(Exchange("write", OpRead, Addr24(loc.offset), 4))
    /\ fpc' = "rd_read"
    /\ UNCHANGED <<stack, cmd, rsp, loc, xflash_, csn, counts, accepted, responded>>
    /\ Private

\* Where a failing spi_.read may stop among len bytes: before the first or
\* before the last byte.
FailPoints(len) == {k \in {0, len - 1} : 0 <= k /\ k < len}

\* ret = spi_.read(buf, len): all len bytes arrive in the buffer, or the
\* transfer stops with k bytes stored and reports failure.
ReadRead ==
    /\ fpc = "rd_read"
    /\ LET len == loc.len[1] * Limb + loc.len[2]
       IN  \/ /\ xflashbuf' = IF len = 0 THEN xflashbuf
                              ELSE [src |-> "flash", offset |-> Addr24(loc.offset),
                                    n |-> len]
              /\ loc' = [loc EXCEPT !.ret = TRUE]
              /\ bus' = IF len = 0 THEN bus
                        ELSE Logged(Exchange("read", OpRead, Addr24(loc.offset), len))
           \/ \E k \in FailPoints(len) :
              /\ xflashbuf' = IF k = 0 THEN xflashbuf
                              ELSE [src |-> "flash", offset |-> Addr24(loc.offset),
                                    n |-> k]
              /\ loc' = [loc EXCEPT !.ret = FALSE]
              /\ bus' = Logged([Exchange("read", OpRead, Addr24(loc.offset), k)
                                   EXCEPT !.ok = FALSE])
    /\ fpc' = "rd_deselect"
    /\ UNCHANGED <<doorbell, stack, cmd, rsp, xflash_, csn, counts, accepted,
                   responded, chip, ctrlVars, rc, part, probed, powerVars>>

\* Mutant of ReadDeselect: read returns without deselect().
ReadDeselectSkipped ==
    /\ fpc = "rd_deselect"
    /\ Return(loc.ret)
    /\ UNCHANGED <<cmd, rsp, xflash_, csn, counts, bus, accepted, responded>>
    /\ Private

ReadDeselect ==
    /\ fpc = "rd_deselect"
    /\ Deselect
    /\ Return(loc.ret)
    /\ UNCHANGED <<cmd, rsp, xflash_, counts, bus, accepted, responded>>
    /\ Private

\* --- write(buf, len, offset)

\* while (len > 0) { ret = waitReady(); ... } return true;
WriteLoop ==
    /\ fpc = "wt_loop"
    /\ IF loc.len = Zero32
       THEN Return(TRUE)
       ELSE Call("wr_select1", "wt_ready") /\ UNCHANGED loc
    /\ UNCHANGED <<cmd, rsp, xflash_, csn, counts, bus, accepted, responded>>
    /\ Private

WriteReady ==
    /\ fpc = "wt_ready"
    /\ IF ~loc.ret
       THEN Return(FALSE)
       ELSE Call("we_select", "wt_enabled") /\ UNCHANGED loc
    /\ UNCHANGED <<cmd, rsp, xflash_, csn, counts, bus, accepted, responded>>
    /\ Private

\* Mutant of PageChunk: a whole page per instruction wherever it starts.
PageChunkWhole(offset, len) ==
    IF Lt32(len, ToU32(programPageSize)) THEN len[2] ELSE programPageSize

\* The interim length per instruction: up to the end of the program page,
\* capped by what is left.
PageChunk(offset, len) ==
    LET ilen == programPageSize - ModPage(offset)
    IN  IF Lt32(len, ToU32(ilen)) THEN len[2] ELSE ilen

\* ilen is computed, the header is built from offset, offset and len move
\* on, and the part is selected.
WriteEnabled ==
    /\ fpc = "wt_enabled"
    /\ LET ilen == PageChunk(loc.offset, loc.len)
       IN  loc' = [loc EXCEPT !.ilen = ilen,
                              !.addr = Addr24(loc.offset),
                              !.offset = Add32(loc.offset, ToU32(ilen)),
                              !.len = Sub32(loc.len, ToU32(ilen))]
    /\ Select
    /\ fpc' = "wt_hdr"
    /\ UNCHANGED <<stack, cmd, rsp, xflash_, counts, bus, accepted, responded>>
    /\ Private

\* The page-program header; the chip starts programming with this command.
WriteHeader ==
    /\ fpc = "wt_hdr"
    /\ bus' = Logged(Exchange("write", OpProgram, loc.addr, 4))
    /\ chip' = ChipAfter(chip, OpProgram)
    /\ fpc' = "wt_data"
    /\ UNCHANGED <<doorbell, xflashbuf, stack, cmd, rsp, loc, xflash_, csn, counts,
                   accepted, responded, ctrlVars, rc, part, probed, powerVars>>

\* ret = spi_.write(buf, ilen): ilen bytes from position buf of the buffer.
WriteData ==
    /\ fpc = "wt_data"
    /\ bus' = Logged([Exchange("data", OpProgram, loc.addr, loc.ilen)
                       EXCEPT !.buf = loc.buf])
    /\ fpc' = "wt_deselect"
    /\ UNCHANGED <<stack, cmd, rsp, loc, xflash_, csn, counts, accepted, responded>>
    /\ Private

\* Mutant of WriteDeselect: buf is not advanced.
WriteDeselectSameBuf ==
    /\ fpc = "wt_deselect"
    /\ Deselect
    /\ fpc' = "wt_loop"
    /\ UNCHANGED <<stack, cmd, rsp, loc, xflash_, counts, bus, accepted, responded>>
    /\ Private

\* deselect(); spi_.write reported success, so buf += ilen and loop.
WriteDeselect ==
    /\ fpc = "wt_deselect"
    /\ Deselect
    /\ loc' = [loc EXCEPT !.buf = loc.buf + loc.ilen]
    /\ fpc' = "wt_loop"
    /\ UNCHANGED <<stack, cmd, rsp, xflash_, counts, bus, accepted, responded>>
    /\ Private

\* --- erase(len, offset)

\* size_t endoffset = offset + len - 1;
EndOffset(offset, len) == Sub32(Add32(offset, len), U32(0, 1))

\* Mutant of AlignSector: the offset is used as it came.
AlignSectorNot(offset) == offset

\* offset = (offset / eraseSectorSize) * eraseSectorSize;
AlignSector(offset) ==
    <<offset[1], (offset[2] \div eraseSectorSize) * eraseSectorSize>>

\* size_t numsectors = (endoffset - offset + eraseSectorSize - 1) / eraseSectorSize;
NumSectors(offset, len) ==
    DivSector(Add32(Sub32(EndOffset(offset, len), AlignSector(offset)),
                    ToU32(eraseSectorSize - 1)))

EraseEntry ==
    /\ fpc = "er_entry"
    /\ loc' = [loc EXCEPT !.offset = AlignSector(loc.offset),
                          !.numsectors = NumSectors(loc.offset, loc.len),
                          !.i = 0]
    /\ fpc' = "er_loop"
    /\ UNCHANGED <<stack, cmd, rsp, xflash_, csn, counts, bus, accepted, responded>>
    /\ Private

\* for (i = 0; i < numsectors; i++) { ret = waitReady(); ... }
\* return waitReady();
EraseLoop ==
    /\ fpc = "er_loop"
    /\ IF loc.i < loc.numsectors
       THEN Call("wr_select1", "er_ready")
       ELSE fpc' = "wr_select1" /\ UNCHANGED stack
    /\ UNCHANGED <<cmd, rsp, loc, xflash_, csn, counts, bus, accepted, responded>>
    /\ Private

\* Mutant of EraseReady: the sector erase is sent without writeEnable().
EraseReadyNoEnable ==
    /\ fpc = "er_ready"
    /\ IF ~loc.ret
       THEN Return(FALSE)
       ELSE fpc' = "er_enabled" /\ UNCHANGED <<stack, loc>>
    /\ UNCHANGED <<cmd, rsp, xflash_, csn, counts, bus, accepted, responded>>
    /\ Private

EraseReady ==
    /\ fpc = "er_ready"
    /\ IF ~loc.ret
       THEN Return(FALSE)
       ELSE Call("we_select", "er_enabled") /\ UNCHANGED loc
    /\ UNCHANGED <<cmd, rsp, xflash_, csn, counts, bus, accepted, responded>>
    /\ Private

EraseEnabled ==
    /\ fpc = "er_enabled"
    /\ Select
    /\ fpc' = "er_write"
    /\ UNCHANGED <<stack, cmd, rsp, loc, xflash_, counts, bus, accepted, responded>>
    /\ Private

EraseWrite ==
    /\ fpc = "er_write"
    /\ bus' = Logged(Exchange("write", OpErase4k, Addr24(loc.offset), 4))
    /\ chip' = ChipAfter(chip, OpErase4k)
    /\ fpc' = "er_deselect"
    /\ UNCHANGED <<doorbell, xflashbuf, stack, cmd, rsp, loc, xflash_, csn, counts,
                   accepted, responded, ctrlVars, rc, part, probed, powerVars>>

\* deselect(); offset += eraseSectorSize; and the next round of the loop.
EraseDeselect ==
    /\ fpc = "er_deselect"
    /\ Deselect
    /\ loc' = [loc EXCEPT !.offset = Add32(loc.offset, ToU32(eraseSectorSize)),
                          !.i = loc.i + 1]
    /\ fpc' = "er_loop"
    /\ UNCHANGED <<stack, cmd, rsp, xflash_, counts, bus, accepted, responded>>
    /\ Private

\* --- massErase()

MassEraseEntry ==
    /\ fpc = "me_entry"
    /\ Call("wr_select1", "me_ready")
    /\ UNCHANGED <<cmd, rsp, loc, xflash_, csn, counts, bus, accepted, responded>>
    /\ Private

MassEraseReady ==
    /\ fpc = "me_ready"
    /\ IF ~loc.ret
       THEN Return(FALSE)
       ELSE Call("we_select", "me_enabled") /\ UNCHANGED loc
    /\ UNCHANGED <<cmd, rsp, xflash_, csn, counts, bus, accepted, responded>>
    /\ Private

MassEraseEnabled ==
    /\ fpc = "me_enabled"
    /\ Select
    /\ fpc' = "me_write"
    /\ UNCHANGED <<stack, cmd, rsp, loc, xflash_, counts, bus, accepted, responded>>
    /\ Private

MassEraseWrite ==
    /\ fpc = "me_write"
    /\ bus' = Logged(Exchange("write", OpEraseAll, Zero32, 1))
    /\ chip' = ChipAfter(chip, OpEraseAll)
    /\ fpc' = "me_deselect"
    /\ UNCHANGED <<doorbell, xflashbuf, stack, cmd, rsp, loc, xflash_, csn, counts,
                   accepted, responded, ctrlVars, rc, part, probed, powerVars>>

\* deselect(); return waitReady();
MassEraseDeselect ==
    /\ fpc = "me_deselect"
    /\ Deselect
    /\ fpc' = "wr_select1"
    /\ UNCHANGED <<stack, cmd, rsp, loc, xflash_, counts, bus, accepted, responded>>
    /\ Private

\* ------------------------------------------------------------- Loop

\* Response error(Response::Kind kind = Response::Kind::Error)
error(kind) == Response(kind, Zero32, Zero32, Zero32)

\* return { Response::Kind::Ok };
Ok == Response(RspOk, Zero32, Zero32, Zero32)

\* Xflash::getInfo() returned a null pointer.
NoInfo == ~xflash_.valid

\* Mutant of TooLong: the bound is off by one.
TooLongOffByOne(length) == Gt32(length, ToU32(XFLASH_BUF_SIZE + 1))

\* if (length > XFLASH_BUF_SIZE)
TooLong(length) == Gt32(length, ToU32(XFLASH_BUF_SIZE))

\* A handler that answers without calling into the driver.
Answer(r) == rsp' = r /\ fpc' = "sr_arg0" /\ UNCHANGED <<stack, loc>>

\* A handler that calls a driver operation with (len, offset).
Operate(entry, len, offset) ==
    /\ loc' = [loc EXCEPT !.len = len, !.offset = offset]
    /\ Call(entry, "op_ret")
    /\ UNCHANGED rsp

xflashInfo(c) ==
    IF NoInfo
    THEN Answer(error(RspErrorXflash))
    ELSE Answer(Response(RspXflashInfo, U32(0, xflash_.info.manfId),
                         U32(0, xflash_.info.devId), Zero32))

massErase(c) == Operate("me_entry", Zero32, Zero32)

sectorErase(c) == Operate("er_entry", c.arg1, c.arg0)

readBlock(c) ==
    IF TooLong(c.arg1)
    THEN Answer(error(RspErrorBufOverflow))
    ELSE Operate("rd_entry", c.arg1, c.arg0)

writeBlock(c) ==
    IF TooLong(c.arg1)
    THEN Answer(error(RspErrorBufOverflow))
    ELSE Operate("wt_loop", c.arg1, c.arg0)

\* switch (cmd.kind) of Loop::run.
Dispatch ==
    /\ fpc = "dispatch"
    /\ CASE cmd.kind = CmdXflashInfo -> xflashInfo(cmd)
         [] cmd.kind = CmdMassErase -> massErase(cmd)
         [] cmd.kind = CmdSectorErase -> sectorErase(cmd)
         [] cmd.kind = CmdReadBlock -> readBlock(cmd)
         [] cmd.kind = CmdWriteBlock -> writeBlock(cmd)
         [] OTHER -> Answer(error(RspError))
    /\ UNCHANGED <<cmd, xflash_, csn, counts, bus, accepted, responded>>
    /\ Private

\* Mutant of Operated: the result of the driver operation is ignored.
OperatedAlwaysOk ==
    /\ fpc = "op_ret"
    /\ rsp' = Ok
    /\ fpc' = "sr_arg0"
    /\ UNCHANGED <<stack, cmd, loc, xflash_, csn, counts, bus, accepted, responded>>
    /\ Private

\* The driver operation has returned ret to massErase, sectorErase,
\* readBlock or writeBlock: Ok if it succeeded, ErrorXflash if not.
Operated ==
    /\ fpc = "op_ret"
    /\ rsp' = IF loc.ret THEN Ok ELSE error(RspErrorXflash)
    /\ fpc' = "sr_arg0"
    /\ UNCHANGED <<stack, cmd, loc, xflash_, csn, counts, bus, accepted, responded>>
    /\ Private

\* ------------------------------------------- Xflash::Xflash and close

PowerDownTries == 10

\* The parts on the bus: the four of the table and one that is not in it.
Parts == { <<hw.manfId, hw.devId>> : hw \in supportedHw } \cup { <<1, 2>> }

\* The two bytes a successful read of the id returns: the part's own ids,
\* or 0xFF 0xFF from the undriven line once the part has powered down (a
\* part that was told to power down may still answer for a while).
IdsRead == IF chip.pd THEN {part, <<255, 255>>} ELSE {part}

\* The state when the body of Xflash's constructor starts: Spi and the
\* GPIO handle are open, deselect() has run; the part is in standby or
\* still in deep power-down from an earlier session.
InitBoot ==
    /\ doorbell = [cmd |-> NoCommand, rsp |-> NoResponse]
    /\ xflashbuf = [src |-> "init", offset |-> Zero32, n |-> 0]
    /\ fpc = "ps_select"
    /\ stack = <<>>
    /\ cmd = NoCommand
    /\ rsp = NoResponse
    /\ loc = NoLocals
    /\ xflash_ = [info |-> XflashInfo(Zero32, 0, 0, FALSE), valid |-> FALSE]
    /\ chip \in [wip : {FALSE}, wel : {FALSE}, pd : BOOLEAN]
    /\ part \in Parts
    /\ probed = NoProbe
    /\ csn = FALSE
    /\ counts = CountsAfterConstruction
    /\ prcm = PrcmAfterConstruction
    /\ handles = HandlesAfterConstruction
    /\ pre = NoMark
    /\ balance = HandlesAfterConstruction
    /\ bus = <<>>
    /\ cpc = "idle"
    /\ ccmd = NoCommand
    /\ crsp = NoResponse
    /\ issued = 0
    /\ accepted = 0
    /\ responded = 0
    /\ rc = NoRange

\* --- powerStandby

PowerStandbySelect ==
    /\ fpc = "ps_select"
    /\ Select
    /\ fpc' = "ps_write"
    /\ UNCHANGED <<stack, cmd, rsp, loc, xflash_, counts, bus, accepted, responded>>
    /\ Private

PowerStandbyWrite ==
    /\ fpc = "ps_write"
    /\ bus' = Logged(Exchange("write", OpRdp, Zero32, 1))
    /\ chip' = ChipAfter(chip, OpRdp)
    /\ fpc' = "ps_deselect"
    /\ UNCHANGED <<doorbell, xflashbuf, stack, cmd, rsp, loc, xflash_, csn, counts,
                   accepted, responded, ctrlVars, rc, part, probed, powerVars>>

\* deselect(); spi_.write reported success; delay(100); return waitReady();
PowerStandbyDeselect ==
    /\ fpc = "ps_deselect"
    /\ Deselect
    /\ Call("wr_select1", "ct_awake")
    /\ UNCHANGED <<cmd, rsp, loc, xflash_, counts, bus, accepted, responded>>
    /\ Private

\* if (!powerStandby()) { close(); return; }  if (!verifyPart()) ...
CtorAwake ==
    /\ fpc = "ct_awake"
    /\ IF ~loc.ret
       THEN Call("pd_select", "ct_done")
       ELSE Call("vp_entry", "ct_verified")
    /\ UNCHANGED <<cmd, rsp, loc, xflash_, csn, counts, bus, accepted, responded>>
    /\ Private

\* if (!verifyPart()) { close(); }
CtorVerified ==
    /\ fpc = "ct_verified"
    /\ IF ~loc.ret
       THEN Call("pd_select", "ct_done")
       ELSE fpc' = "ct_done" /\ UNCHANGED stack
    /\ UNCHANGED <<cmd, rsp, loc, xflash_, csn, counts, bus, accepted, responded>>
    /\ Private

\* --- readInfo

ReadInfoSelect ==
    /\ fpc = "ri_select"
    /\ Select
    /\ fpc' = "ri_write"
    /\ UNCHANGED <<stack, cmd, rsp, loc, xflash_, counts, bus, accepted, responded>>
    /\ Private

ReadInfoWrite ==
    /\ fpc = "ri_write"
    /\ bus' = Logged(Exchange("write", OpMdid, Zero32, 4))
    /\ fpc' = "ri_read"
    /\ UNCHANGED <<stack, cmd, rsp, loc, xflash_, csn, counts, accepted, responded>>
    /\ Private

\* ret = spi_.read(rbuf, 2); on success the two id bytes are stored;
\* xflash_.valid = ret.
ReadInfoRead ==
    /\ fpc = "ri_read"
    /\ \E ok \in BOOLEAN, ids \in IdsRead :
        /\ xflash_' = IF ok
                      THEN [info |-> [xflash_.info EXCEPT !.manfId = ids[1],
                                                          !.devId = ids[2]],
                            valid |-> TRUE]
                      ELSE [xflash_ EXCEPT !.valid = FALSE]
        /\ loc' = [loc EXCEPT !.ret = ok]
        /\ probed' = IF ok /\ stack = <<"vp_match", "ct_verified">>
                     THEN ids ELSE probed
        /\ bus' = Logged([Exchange("read", OpMdid, Zero32, 2) EXCEPT !.ok = ok])
    /\ fpc' = "ri_deselect"
    /\ UNCHANGED <<doorbell, xflashbuf, stack, cmd, rsp, csn, counts, accepted,
                   responded, chip, ctrlVars, rc, part, powerVars>>

ReadInfoDeselect ==
    /\ fpc = "ri_deselect"
    /\ Deselect
    /\ Return(loc.ret)
    /\ UNCHANGED <<cmd, rsp, xflash_, counts, bus, accepted, responded>>
    /\ Private

\* --- verifyPart

VerifyPartEntry ==
    /\ fpc = "vp_entry"
    /\ Call("ri_select", "vp_match")
    /\ UNCHANGED <<cmd, rsp, loc, xflash_, csn, counts, bus, accepted, responded>>
    /\ Private

\* The table entries whose ids are the cached ones.
Matching ==
    { hw \in supportedHw :
        xflash_.info.manfId = hw.manfId /\ xflash_.info.devId = hw.devId }

\* readInfo failed: false.  A table entry matches: supported and deviceSize
\* are set, true.  No entry matches: false, the info is left as it is.
VerifyPartMatch ==
    /\ fpc = "vp_match"
    /\ IF ~loc.ret \/ ~xflash_.valid
       THEN Return(FALSE) /\ UNCHANGED xflash_
       ELSE IF Matching # {}
       THEN /\ \E hw \in Matching :
                 xflash_' = [xflash_ EXCEPT !.info.supported = TRUE,
                                            !.info.deviceSize = hw.deviceSize]
            /\ Return(TRUE)
       ELSE Return(FALSE) /\ UNCHANGED xflash_
    /\ UNCHANGED <<cmd, rsp, csn, counts, bus, accepted, responded>>
    /\ Private

\* --- close: powerDown(); waitPowerDown();

PowerDownSelect ==
    /\ fpc = "pd_select"
    /\ Select
    /\ fpc' = "pd_write"
    /\ UNCHANGED <<stack, cmd, rsp, loc, xflash_, counts, bus, accepted, responded>>
    /\ Private

PowerDownWrite ==
    /\ fpc = "pd_write"
    /\ bus' = Logged(Exchange("write", OpDp, Zero32, 1))
    /\ chip' = ChipAfter(chip, OpDp)
    /\ fpc' = "pd_deselect"
    /\ UNCHANGED <<doorbell, xflashbuf, stack, cmd, rsp, loc, xflash_, csn, counts,
                   accepted, responded, ctrlVars, rc, part, probed, powerVars>>

\* deselect(); powerDown returns; waitPowerDown starts with i = 0.
PowerDownDeselect ==
    /\ fpc = "pd_deselect"
    /\ Deselect
    /\ loc' = [loc EXCEPT !.i = 0]
    /\ fpc' = "wpd_loop"
    /\ UNCHANGED <<stack, cmd, rsp, xflash_, counts, bus, accepted, responded>>
    /\ Private

\* for (int i = 0; i < 10; ++i) { if (!verifyPart()) ... } return false;
WaitPowerDownLoop ==
    /\ fpc = "wpd_loop"
    /\ IF loc.i < PowerDownTries
       THEN Call("vp_entry", "wpd_check") /\ UNCHANGED loc
       ELSE Return(FALSE)
    /\ UNCHANGED <<cmd, rsp, xflash_, csn, counts, bus, accepted, responded>>
    /\ Private

\* if (!verifyPart()) { return true; }
WaitPowerDownCheck ==
    /\ fpc = "wpd_check"
    /\ IF ~loc.ret
       THEN Return(TRUE)
       ELSE /\ loc' = [loc EXCEPT !.i = loc.i + 1]
            /\ fpc' = "wpd_loop"
            /\ UNCHANGED stack
    /\ UNCHANGED <<cmd, rsp, xflash_, csn, counts, bus, accepted, responded>>
    /\ Private

\* --- Server::Server, the last member of Loop to be constructed

ServerClearCmd ==
    /\ fpc = "ct_done"
    /\ doorbell' = [doorbell EXCEPT !.cmd.kind = CmdNone]
    /\ fpc' = "sv_rsp"
    /\ UNCHANGED <<xflashbuf, stack, cmd, rsp, loc, xflash_, csn, counts, bus,
                   accepted, responded, chip, ctrlVars, rc, part, probed, powerVars>>

\* doorbell_.rsp.kind = None; Loop is constructed and loop() calls run().
ServerClearRsp ==
    /\ fpc = "sv_rsp"
    /\ doorbell' = [doorbell EXCEPT !.rsp.kind = RspNone]
    /\ fpc' = "wfc_poll"
    /\ loc' = NoLocals
    /\ bus' = <<>>
    /\ UNCHANGED <<xflashbuf, stack, cmd, rsp, xflash_, csn, counts, accepted,
                   responded, chip, ctrlVars, rc, part, probed, powerVars>>

Construction ==
    \/ PowerStandbySelect \/ PowerStandbyWrite \/ PowerStandbyDeselect
    \/ CtorAwake \/ CtorVerified
    \/ ReadInfoSelect \/ ReadInfoWrite \/ ReadInfoRead \/ ReadInfoDeselect
    \/ VerifyPartEntry \/ VerifyPartMatch
    \/ PowerDownSelect \/ PowerDownWrite \/ PowerDownDeselect
    \/ WaitPowerDownLoop \/ WaitPowerDownCheck
    \/ ServerClearCmd \/ ServerClearRsp

\* ------------------------------------------------------ specification

Controller ==
    \/ CtrlCall \/ CtrlWriteBuf
    \/ CtrlWriteArg2 \/ CtrlWriteArg1 \/ CtrlWriteArg0 \/ CtrlWriteKind
    \/ CtrlWaitConsumed \/ CtrlWaitResponse
    \/ CtrlReadKind \/ CtrlReadArg0 \/ CtrlReadArg1 \/ CtrlReadArg2
    \/ CtrlConsume

ServerStep ==
    \/ WfcPoll \/ WfcSwitch \/ WfcCopyKind \/ WfcCopyArg0 \/ WfcCopyArg1
    \/ WfcCopyArg2 \/ WfcClear \/ WfcClearInvalid
    \/ SrArg0 \/ SrArg1 \/ SrArg2 \/ SrKind \/ SrWait

DriverStep ==
    \/ WaitReadySelectFlush \/ WaitReadyFlush \/ WaitReadyDeselectFlush
    \/ WaitReadySelect \/ WaitReadyWrite \/ WaitReadyRead \/ WaitReadyDeselect
    \/ WriteEnableSelect \/ WriteEnableWrite \/ WriteEnableDeselect
    \/ ReadEntry \/ ReadReady \/ ReadWrite \/ ReadRead \/ ReadDeselect
    \/ WriteLoop \/ WriteReady \/ WriteEnabled \/ WriteHeader \/ WriteData
    \/ WriteDeselect
    \/ EraseEntry \/ EraseLoop \/ EraseReady \/ EraseEnabled \/ EraseWrite
    \/ EraseDeselect
    \/ MassEraseEntry \/ MassEraseReady \/ MassEraseEnabled \/ MassEraseWrite
    \/ MassEraseDeselect

Firmware == ServerStep \/ Dispatch \/ Operated \/ DriverStep

Next == Controller \/ Firmware \/ ChipDone

Spec == Init /\ [][Next]_vars

\* The firmware runs whenever it can, the chip finishes what it started, a
\* status read of a part that is not busy eventually shows it, and the
\* controller keeps polling and consumes every response.
StatusClear == WaitReadyRead /\ loc'.ret /\ ~loc'.wip

ControllerReads ==
    \/ CtrlWaitConsumed \/ CtrlWaitResponse
    \/ CtrlReadKind \/ CtrlReadArg0 \/ CtrlReadArg1 \/ CtrlReadArg2
    \/ CtrlConsume

Fairness ==
    /\ WF_vars(Firmware)
    /\ WF_vars(ChipDone)
    /\ SF_vars(StatusClear)
    /\ WF_vars(ControllerReads)

LiveSpec == Init /\ [][Next]_vars /\ Fairness

\* The firmware from the construction of Xflash on.
NextBoot == Construction \/ Next

SpecBoot == InitBoot /\ [][NextBoot]_vars

\* ---------------------------------------------------------- bsp::Power

\* std::numeric_limits<uint8_t>::max()
max_dep_count == 255

\* dep_count_t is uint8_t.
DepCountRange == 256

\* Domain::None.
None == "none"

\* Domain getDomainDependency(Periph periph)
getDomainDependency(periph) ==
    CASE periph \in {"ssi0", "uart0", "i2c0"} -> "serial"
      [] periph \in {"timer0", "timer1", "timer2", "timer3", "ssi1", "uart1",
                     "crypto", "trng", "pka", "udma", "gpio", "i2s"} -> "periph"
      [] OTHER -> None

\* The driverlib calls of the four edges, each with the call its loop
\* waits on: PRCMPowerDomainOn(d); while (PRCMPowerDomainsAllOn(d) != ON);
\* and PRCMPeripheralRunEnable(p); PRCMLoadSet(); while (!PRCMLoadGet());
DomainOn(domain) ==
    <<<<"PRCMPowerDomainOn", domain>>, <<"PRCMPowerDomainsAllOn", domain>>>>

DomainOff(domain) ==
    <<<<"PRCMPowerDomainOff", domain>>, <<"PRCMPowerDomainsAllOff", domain>>>>

RunEnable(periph) ==
    <<<<"PRCMPeripheralRunEnable", periph>>, <<"PRCMLoadSet", periph>>,
      <<"PRCMLoadGet", periph>>>>

RunDisable(periph) ==
    <<<<"PRCMPeripheralRunDisable", periph>>, <<"PRCMLoadSet", periph>>,
      <<"PRCMLoadGet", periph>>>>

\* Power as the operations below see it: counts_ and the PRCM.
PowerState == [counts |-> counts, on |-> prcm.on, run |-> prcm.run, calls |-> <<>>]

\* Mutant of setDependencyDomain: the counter is incremented without the
\* test for max_dep_count.
setDependencyDomainWraps(s, domain) ==
    IF domain \notin Domains THEN s
    ELSE LET n == (s.counts.domains[domain] + 1) % DepCountRange
         IN  IF n = 1
             THEN [s EXCEPT !.counts.domains[domain] = n,
                            !.on[domain] = TRUE,
                            !.calls = @ \o DomainOn(domain)]
             ELSE [s EXCEPT !.counts.domains[domain] = n]

\* void setDependency(Domain domain)
setDependencyDomain(s, domain) ==
    IF domain \notin Domains THEN s
    ELSE IF s.counts.domains[domain] = max_dep_count THEN s
    ELSE LET n == (s.counts.domains[domain] + 1) % DepCountRange
         IN  IF n = 1
             THEN [s EXCEPT !.counts.domains[domain] = n,
                            !.on[domain] = TRUE,
                            !.calls = @ \o DomainOn(domain)]
             ELSE [s EXCEPT !.counts.domains[domain] = n]

\* Mutant of clearDependencyDomain: the domain is powered off at every
\* decrement.
clearDependencyDomainAlways(s, domain) ==
    IF domain \notin Domains THEN s
    ELSE IF s.counts.domains[domain] = 0 THEN s
    ELSE [s EXCEPT !.counts.domains[domain] = @ - 1,
                   !.on[domain] = FALSE,
                   !.calls = @ \o DomainOff(domain)]

\* void clearDependency(Domain domain)
clearDependencyDomain(s, domain) ==
    IF domain \notin Domains THEN s
    ELSE IF s.counts.domains[domain] = 0 THEN s
    ELSE LET n == s.counts.domains[domain] - 1
         IN  IF n = 0
             THEN [s EXCEPT !.counts.domains[domain] = n,
                            !.on[domain] = FALSE,
                            !.calls = @ \o DomainOff(domain)]
             ELSE [s EXCEPT !.counts.domains[domain] = n]

\* Mutant of setDependencyPeriph: the parent domain is acquired at every
\* increment.
setDependencyPeriphEveryTime(s, periph) ==
    IF periph \notin Periphs THEN s
    ELSE IF s.counts.periphs[periph] = max_dep_count THEN s
    ELSE LET n == (s.counts.periphs[periph] + 1) % DepCountRange
             t == setDependencyDomain([s EXCEPT !.counts.periphs[periph] = n],
                                      getDomainDependency(periph))
         IN  IF n = 1
             THEN [t EXCEPT !.run[periph] = TRUE, !.calls = @ \o RunEnable(periph)]
             ELSE t

\* void setDependency(Periph periph)
setDependencyPeriph(s, periph) ==
    IF periph \notin Periphs THEN s
    ELSE IF s.counts.periphs[periph] = max_dep_count THEN s
    ELSE LET n == (s.counts.periphs[periph] + 1) % DepCountRange
             t == [s EXCEPT !.counts.periphs[periph] = n]
         IN  IF n = 1
             THEN [setDependencyDomain(t, getDomainDependency(periph))
                     EXCEPT !.run[periph] = TRUE,
                            !.calls = @ \o RunEnable(periph)]
             ELSE t

\* Mutant of clearDependencyPeriph: the parent is released before the
\* clock is disabled.
clearDependencyPeriphParentFirst(s, periph) ==
    IF periph \notin Periphs THEN s
    ELSE IF s.counts.periphs[periph] = 0 THEN s
    ELSE LET n == s.counts.periphs[periph] - 1
             t == [s EXCEPT !.counts.periphs[periph] = n]
         IN  IF n = 0
             THEN [clearDependencyDomain(t, getDomainDependency(periph))
                     EXCEPT !.run[periph] = FALSE,
                            !.calls = @ \o RunDisable(periph)]
             ELSE t

\* void clearDependency(Periph periph)
clearDependencyPeriph(s, periph) ==
    IF periph \notin Periphs THEN s
    ELSE IF s.counts.periphs[periph] = 0 THEN s
    ELSE LET n == s.counts.periphs[periph] - 1
             t == [s EXCEPT !.counts.periphs[periph] = n]
         IN  IF n = 0
             THEN clearDependencyDomain(
                      [t EXCEPT !.run[periph] = FALSE,
                                !.calls = @ \o RunDisable(periph)],
                      getDomainDependency(periph))
             ELSE t

\* The handles a client of Power holds at most before a sequence starts:
\* enough to take a counter to max_dep_count and one beyond; and the
\* handles it holds at most of a resource other than Serial and Ssi0.
MaxHandles == 256

MaxOtherHandles == 1

\* The operations of one sequence started by Mark.
MaxSeq == 4

\* The resources the client opens: the Serial domain directly, Ssi0 and
\* Uart0 beneath it.
ClientDomains == {"serial"}

ClientPeriphs == {"ssi0", "uart0"}

HandleLimit(r) == IF r \in {"serial", "ssi0"} THEN MaxHandles + MaxSeq ELSE MaxOtherHandles

\* The handles alive.
Alive ==
    handles.domains["serial"] + handles.periphs["ssi0"] + handles.periphs["uart0"]

\* Another handle may be opened.
Room(r) == handles[r[1]][r[2]] < HandleLimit(r[2]) /\ (pre.marked \/ Alive < MaxHandles)

\* The numbers of handles a sequence starts from.
StartHandles == {0, 1, max_dep_count - 1, max_dep_count}

\* The state of Power and of the handles after an operation, and the
\* sequence it belongs to grown by one.
HandleStep(t, h, paired) ==
    /\ counts' = t.counts
    /\ prcm' = [on |-> t.on, run |-> t.run, calls |-> t.calls]
    /\ handles' = h
    /\ balance' = [k \in DOMAIN balance |->
                      [r \in DOMAIN balance[k] |->
                          balance[k][r] + h[k][r] - handles[k][r]]]
    /\ pre' = IF pre.marked
              THEN [pre EXCEPT !.ops = @ + 1, !.paired = @ /\ paired]
              ELSE pre
    /\ UNCHANGED <<doorbell, xflashbuf, fpc, stack, cmd, rsp, loc, xflash_, csn,
                   chip, bus, ctrlVars, accepted, responded, rc, part, probed>>

InSequence == pre.marked => pre.ops < MaxSeq

\* Power::openDomain(domain): DomainHandle's constructor.
OpenDomain(domain) ==
    /\ InSequence
    /\ Room(<<"domains", domain>>)
    /\ HandleStep(setDependencyDomain(PowerState, domain),
                 [handles EXCEPT !.domains[domain] = @ + 1], TRUE)

\* ~DomainHandle() of a handle that is alive.
CloseDomain(domain) ==
    /\ InSequence
    /\ handles.domains[domain] > 0
    /\ HandleStep(clearDependencyDomain(PowerState, domain),
                 [handles EXCEPT !.domains[domain] = @ - 1],
                 handles.domains[domain] > pre.handles.domains[domain])

\* Power::openPeriph(periph): PeriphHandle's constructor.
OpenPeriph(periph) ==
    /\ InSequence
    /\ Room(<<"periphs", periph>>)
    /\ HandleStep(setDependencyPeriph(PowerState, periph),
                 [handles EXCEPT !.periphs[periph] = @ + 1], TRUE)

\* ~PeriphHandle() of a handle that is alive.
ClosePeriph(periph) ==
    /\ InSequence
    /\ handles.periphs[periph] > 0
    /\ HandleStep(clearDependencyPeriph(PowerState, periph),
                 [handles EXCEPT !.periphs[periph] = @ - 1],
                 handles.periphs[periph] > pre.handles.periphs[periph])

\* A sequence of handle operations starts here.
Mark ==
    /\ ~pre.marked
    /\ handles.domains["serial"] \in StartHandles
    /\ handles.periphs["ssi0"] \in StartHandles
    /\ pre' = [marked |-> TRUE, counts |-> counts, on |-> prcm.on, run |-> prcm.run,
               handles |-> handles, paired |-> TRUE, ops |-> 0]
    /\ UNCHANGED <<doorbell, xflashbuf, fwVars, chip, ctrlVars, rc, part, probed,
                   prcm, handles, balance>>

\* Power::Power has run and nothing else: main() before Loop is constructed.
InitPower ==
    /\ doorbell = [cmd |-> NoCommand, rsp |-> NoResponse]
    /\ xflashbuf = [src |-> "init", offset |-> Zero32, n |-> 0]
    /\ fpc = "main"
    /\ stack = <<>>
    /\ cmd = NoCommand
    /\ rsp = NoResponse
    /\ loc = NoLocals
    /\ xflash_ = [info |-> XflashInfo(Zero32, 0, 0, FALSE), valid |-> FALSE]
    /\ csn = FALSE
    /\ counts = NoCounts
    /\ chip = [wip |-> FALSE, wel |-> FALSE, pd |-> TRUE]
    /\ bus = <<>>
    /\ cpc = "idle"
    /\ ccmd = NoCommand
    /\ crsp = NoResponse
    /\ issued = 0
    /\ accepted = 0
    /\ responded = 0
    /\ rc = NoRange
    /\ part = <<1, 2>>
    /\ probed = NoProbe
    /\ prcm = PrcmOff
    /\ handles = NoCounts
    /\ pre = NoMark
    /\ balance = NoCounts

NextPower ==
    \/ \E domain \in ClientDomains : OpenDomain(domain) \/ CloseDomain(domain)
    \/ \E periph \in ClientPeriphs : OpenPeriph(periph) \/ ClosePeriph(periph)
    \/ Mark

SpecPower == InitPower /\ [][NextPower]_vars

\* --- handles returned by value

\* The copies of a handle that the build may make and destroy between the
\* constructor call in openDomain / openPeriph and the object the caller
\* keeps: the return value and the member it initialises (-std=c++14
\* permits eliding either, and does not require it).
Copies == 1..2

\* The handles a client holds at most when handles may be copied.
MaxCopied == 2

Few == Alive < MaxCopied

\* The state after the destructors of n copies of a handle have run.
RECURSIVE Destroyed(_, _, _)
Destroyed(s, r, n) ==
    IF n = 0 THEN s
    ELSE Destroyed(IF r[1] = "domains" THEN clearDependencyDomain(s, r[2])
                   ELSE clearDependencyPeriph(s, r[2]),
                   r, n - 1)

\* openDomain / openPeriph whose handle is copied n times on the way to
\* the caller: the constructor runs once, the implicit copy constructors
\* call nothing and the destructor of each copy calls clearDependency.
OpenCopied(r, n) ==
    /\ ~pre.marked
    /\ Few
    /\ balance[r[1]][r[2]] + MaxCopied > 0
    /\ LET s == IF r[1] = "domains" THEN setDependencyDomain(PowerState, r[2])
                ELSE setDependencyPeriph(PowerState, r[2])
           t == Destroyed(s, r, n)
       IN  /\ counts' = t.counts
           /\ prcm' = [on |-> t.on, run |-> t.run, calls |-> t.calls]
    /\ handles' = [handles EXCEPT ![r[1]][r[2]] = @ + 1]
    /\ balance' = [balance EXCEPT ![r[1]][r[2]] = @ + 1 - n]
    /\ UNCHANGED <<doorbell, xflashbuf, fpc, stack, cmd, rsp, loc, xflash_, csn,
                   chip, bus, ctrlVars, accepted, responded, rc, part, probed, pre>>

ClientResources ==
    { <<"domains", d>> : d \in ClientDomains } \cup
    { <<"periphs", p>> : p \in ClientPeriphs }

NextCopy ==
    \/ \E r \in ClientResources, n \in Copies : OpenCopied(r, n)
    \/ Few /\ \E domain \in ClientDomains : OpenDomain(domain)
    \/ Few /\ \E periph \in ClientPeriphs : OpenPeriph(periph)
    \/ \E domain \in ClientDomains : CloseDomain(domain)
    \/ \E periph \in ClientPeriphs : ClosePeriph(periph)

SpecCopy == InitPower /\ [][NextCopy]_vars

\* --- a client with a handful of handles

\* The handles the client holds at most: every counter moves through 0, 1
\* and values above, far from max_dep_count.
MaxHeld == 12

NextEdges ==
    \/ Alive < MaxHeld /\ \E domain \in ClientDomains : OpenDomain(domain)
    \/ Alive < MaxHeld /\ \E periph \in ClientPeriphs : OpenPeriph(periph)
    \/ \E domain \in ClientDomains : CloseDomain(domain)
    \/ \E periph \in ClientPeriphs : ClosePeriph(periph)

SpecEdges == InitPower /\ [][NextEdges]_vars

\* ------------------------------------ the driver under one command

\* erase(len, offset) as sectorErase passes it: from the first byte of the
\* part, from the last byte of a sector, aligned and unaligned, ending on
\* the first and on the last byte of a sector, and of no bytes at all.
EraseInputs ==
    { <<0, 1>>, <<4095, 1>>, <<4096, 1>>, <<0, 4096>>, <<0, 4097>>,
      <<100, 4096>>, <<4095, 2>>, <<4096, 8192>>, <<5000, 8000>>,
      <<0, 0>>, <<100, 0>>, <<4096, 0>> }

\* write(buf, len, offset) as writeBlock passes it: within a page, up to
\* the end of a page, across one page boundary and across several.
WriteInputs ==
    { <<0, 1>>, <<0, 256>>, <<255, 1>>, <<255, 2>>, <<254, 4>>, <<256, 257>>,
      <<100, 600>>, <<65530, 300>> }

\* The commands Loop::run has taken from the doorbell; two of the sector
\* erases start at 0x200000, the size of the largest part, and at 0xFFFFFFFF.
DriverCommands ==
    { Command(CmdSectorErase, ToU32(i[1]), ToU32(i[2]), Zero32) : i \in EraseInputs }
    \cup
    { Command(CmdSectorErase, U32(32, 0), ToU32(2), Zero32),
      Command(CmdSectorErase, Max32, ToU32(2), Zero32) }
    \cup
    { Command(CmdWriteBlock, ToU32(i[1]), ToU32(i[2]), Zero32) : i \in WriteInputs }
    \cup
    { Command(CmdXflashInfo, Zero32, Zero32, Zero32),
      Command(CmdMassErase, Zero32, Zero32, Zero32),
      Command(CmdReadBlock, Zero32, ToU32(4), Zero32) }

\* Loop::run has received its first command and is about to switch on its
\* kind; the controller waits for the response.
InitDriver ==
    /\ \E c \in DriverCommands :
        /\ cmd = c
        /\ ccmd = c
        /\ doorbell = [cmd |-> [c EXCEPT !.kind = CmdNone], rsp |-> NoResponse]
        /\ xflashbuf = IF c.kind = CmdWriteBlock
                       THEN [src |-> "host", offset |-> Zero32, n |-> c.arg1[2]]
                       ELSE [src |-> "init", offset |-> Zero32, n |-> 0]
    /\ fpc = "dispatch"
    /\ stack = <<>>
    /\ rsp = NoResponse
    /\ loc = NoLocals
    /\ \E a \in AfterConstruction :
          xflash_ = a.x /\ chip = a.c /\ part = a.p /\ probed = a.pr
    /\ csn = FALSE
    /\ counts = CountsAfterConstruction
    /\ prcm = PrcmAfterConstruction
    /\ handles = HandlesAfterConstruction
    /\ pre = NoMark
    /\ balance = HandlesAfterConstruction
    /\ bus = <<>>
    /\ cpc = "wait_consumed"
    /\ crsp = NoResponse
    /\ issued = 1
    /\ accepted = 1
    /\ responded = 0
    /\ rc = NoRange

NextDriver == Dispatch \/ Operated \/ DriverStep \/ ChipDone

SpecDriver == InitDriver /\ [][NextDriver]_vars

\* ------------------------------------- Loop of the UART generation

\* Mutant of checkAddressRange: the end point is summed in 32 bits.
checkAddressRange32(offset, length) ==
    LET endPoint == Add32(offset, length)
    IN  IF ~xflash_.valid THEN FALSE
        ELSE IF xflash_.info.supported /\ Gt32(endPoint, xflash_.info.deviceSize)
             THEN FALSE
        ELSE TRUE

\* bool checkAddressRange(uint32_t offset, uint32_t length) const: the end
\* point is summed in 64 bits; getInfo() yields the cached info when valid.
checkAddressRange(offset, length) ==
    LET endPoint == Add64(offset, length)
    IN  IF endPoint[1] > 0 THEN FALSE
        ELSE IF ~xflash_.valid THEN FALSE
        ELSE IF /\ xflash_.info.supported
                /\ Gt32(<<endPoint[2], endPoint[3]>>, xflash_.info.deviceSize)
             THEN FALSE
        ELSE TRUE

\* The offsets and lengths checkAddressRange is tried on: around zero,
\* around each supported size, around 2^31 and at the top of the range.
RangeInputs ==
    { Zero32, U32(0, 1), U32(0, 2), U32(3, 65535), U32(4, 0), U32(4, 1),
      U32(16, 0), U32(31, 65535), U32(32, 0), U32(32768, 0),
      U32(65535, 65534), Max32 }

InitRange ==
    /\ Constructed
    /\ \E o \in RangeInputs, l \in RangeInputs :
          rc = [NoRange EXCEPT !.offset = o, !.length = l]

\* Serialize::Response::Type: the types Loop sends after a write request.
Ack == 1

ErrorExtFlash == 129

ErrorUnsupported == 130

ErrorAddressRange == 131

ErrorBufferOverflow == 131

\* void dataWrite(Serialize::Cmd cmd): the type sent after AckPend, ret
\* being what extFlash_.write returns; extFlashBuf_ holds one program page.
dataWrite(offset, length, ret) ==
    IF Gt32(length, ToU32(programPageSize)) THEN ErrorBufferOverflow
    ELSE IF ~checkAddressRange(offset, length) THEN ErrorAddressRange
    ELSE IF ~ret THEN ErrorExtFlash
    ELSE Ack

\* erase, read and dataWrite call checkAddressRange(offset, length); sent
\* is the type dataWrite answers the request with.
RangeCheck ==
    /\ ~rc.done
    /\ \E ret \in BOOLEAN :
          rc' = [rc EXCEPT !.done = TRUE,
                          !.result = checkAddressRange(rc.offset, rc.length),
                          !.sent = dataWrite(rc.offset, rc.length, ret)]
    /\ UNCHANGED <<doorbell, xflashbuf, fwVars, chip, ctrlVars, part, probed, powerVars>>

NextRange == RangeCheck

SpecRange == InitRange /\ [][NextRange]_vars

\* ------------------------------------------------- positions of Loop::run

\* Inside Server::waitForCommand.
WaitStates ==
    {"wfc_poll", "wfc_switch", "wfc_copy_kind", "wfc_copy_arg0", "wfc_copy_arg1",
     "wfc_copy_arg2", "wfc_clear", "wfc_clear_invalid"}

\* Inside Server::sendResponse, before and after rsp.kind is written.
SendStates == {"sr_arg0", "sr_arg1", "sr_arg2", "sr_kind"}

SentStates == {"sr_wait"}

\* Between the return of waitForCommand and the call of sendResponse.
Processing(pc) == pc \notin WaitStates \cup SendStates \cup SentStates

\* ------------------------------------------------------------ claims

\* C1: every command issued through the Doorbell gets exactly one response
\* (one change of rsp.kind from empty to non-empty) before the next command
\* can be accepted: the counts of issued, accepted and answered commands
\* never drift apart, a new command is only awaited once the accepted ones
\* are all answered, and the response the controller reads during its n-th
\* sendCommand is the n-th response, written for that same command.
RoundTrip ==
    /\ responded <= accepted
    /\ accepted <= responded + 1
    /\ accepted <= issued
    /\ issued <= accepted + 1
    /\ fpc \in WaitStates \cup SentStates => responded = accepted
    /\ fpc \notin WaitStates \cup SentStates => accepted = responded + 1
    /\ cpc \in {"r_kind", "r_arg0", "r_arg1", "r_arg2", "consume"} =>
          /\ responded = issued
          /\ fpc = "sr_wait"
          /\ cmd = ccmd

RoundTripWitness ==
    /\ cpc = "consume"
    /\ responded = 2
    /\ ccmd.kind = CmdSectorErase

\* C2: sendResponse writes rsp.arg0..arg2 before rsp.kind, so whenever the
\* Doorbell shows a non-empty rsp.kind its three args are those of that
\* response, and the response the controller has read is the one sent.
ArgsBeforeKind ==
    /\ doorbell.rsp.kind # RspNone => doorbell.rsp = rsp
    /\ cpc = "consume" => crsp = rsp

ArgsBeforeKindWitness ==
    /\ cpc = "consume"
    /\ crsp.kind = RspXflashInfo
    /\ crsp.arg0 = U32(0, 194)
    /\ crsp.arg1 = U32(0, 20)

\* C3: once it has signalled a response the firmware only busy-waits until
\* the controller clears rsp.kind: while rsp.kind is non-empty the firmware
\* is in that wait, so it writes no rsp field and accepts no new command.
WaitsForConsumption ==
    /\ doorbell.rsp.kind # RspNone => fpc = "sr_wait"
    /\ fpc \in WaitStates \cup SendStates \/ Processing(fpc) =>
          doorbell.rsp.kind = RspNone

WaitsForConsumptionWitness ==
    /\ fpc = "sr_wait"
    /\ doorbell.rsp.kind = RspOk
    /\ doorbell.cmd.kind = CmdNone
    /\ cpc = "r_arg1"

\* C4: waitForCommand polls cmd.kind until it is non-empty, copies kind,
\* arg0, arg1 and arg2, and clears cmd.kind before any processing: nothing
\* touches the flash or the bus inside waitForCommand, and while a command
\* is being processed cmd.kind reads empty.
ClearedBeforeProcessing ==
    /\ fpc \in WaitStates => bus = <<>> /\ ~csn /\ stack = <<>>
    /\ fpc \in {"wfc_poll", "wfc_switch", "wfc_copy_kind"} => cmd = NoCommand
    /\ fpc = "wfc_clear" => doorbell.cmd.kind = cmd.kind
    /\ Processing(fpc) \/ fpc \in SendStates =>
          /\ doorbell.cmd.kind = CmdNone
          /\ cmd.kind \in RecognizedKinds

ClearedBeforeProcessingWitness ==
    /\ fpc = "wt_data"
    /\ bus # <<>>
    /\ cmd.kind = CmdWriteBlock
    /\ doorbell.cmd.kind = CmdNone

\* C5: the controller writes arg2, arg1, arg0 and then kind, so the command
\* waitForCommand copies out and returns is, field for field, the command
\* the controller wrote.
TupleIntact ==
    fpc = "wfc_clear" \/ Processing(fpc) \/ fpc \in SendStates => cmd = ccmd

TupleIntactWitness ==
    /\ fpc = "dispatch"
    /\ cmd = Command(CmdReadBlock, Zero32, ToU32(4), U32(0, 7))
    /\ accepted = 2

\* C6: a kind that is not one of the recognized tags is cleared and dropped:
\* the firmware goes back to polling, writes no response, performs no flash
\* operation and counts no accepted command.
UnknownKindDropped ==
    [][ /\ fpc \in {"wfc_switch", "wfc_clear_invalid"}
        /\ doorbell.cmd.kind \notin RecognizedKinds
        /\ fpc' # fpc
        => /\ fpc = "wfc_switch" => fpc' = "wfc_clear_invalid" /\ doorbell' = doorbell
           /\ fpc = "wfc_clear_invalid" =>
                 /\ fpc' = "wfc_poll"
                 /\ doorbell'.cmd.kind = CmdNone
                 /\ doorbell'.rsp = doorbell.rsp
           /\ UNCHANGED <<rsp, bus, csn, chip, xflashbuf, xflash_, stack, accepted,
                          responded>> ]_vars

UnknownKindDroppedWitness ==
    /\ fpc = "wfc_poll"
    /\ cpc = "wait_rsp"
    /\ ccmd.kind \notin RecognizedKinds
    /\ doorbell.cmd.kind = CmdNone
    /\ doorbell.rsp.kind = RspNone
    /\ accepted < issued

\* C7: with a controller that consumes every response and a chip that
\* eventually clears write-in-progress, every recognized command written to
\* the Doorbell is eventually consumed and answered; and the firmware never
\* gives up on a wait: it leaves the wait for a command only on a non-empty
\* cmd.kind, the wait for consumption only on an empty rsp.kind, and the
\* status poll only on a failed read or a clear write-in-progress bit.
Rendezvous ==
    /\ \A n \in 1..MaxCmds :
          (doorbell.cmd.kind \in RecognizedKinds /\ issued = n)
          ~> (doorbell.cmd.kind = CmdNone /\ doorbell.rsp.kind # RspNone
              /\ responded = n)
    /\ [][ /\ fpc = "wfc_poll" /\ fpc' # fpc => doorbell.cmd.kind # CmdNone
           /\ fpc = "sr_wait" /\ fpc' # fpc => doorbell.rsp.kind = RspNone
           /\ fpc = "wr_deselect2" /\ loc.ret /\ loc.wip /\ fpc' # fpc
                 => fpc' = "wr_select2" ]_vars

RendezvousWitness ==
    /\ fpc = "sr_wait"
    /\ cmd.kind = CmdMassErase
    /\ doorbell.rsp.kind = RspOk
    /\ ~chip.pd
    /\ ~chip.wip
    /\ Len(bus) > 4
    /\ responded = 2

\* C8: a block-write or block-read whose length exceeds the transfer buffer
\* is answered with ErrorBufOverflow by the dispatch step itself, which
\* leaves chip select, the buffer, the cached info, the power counters and
\* the chip alone; no SPI exchange happens for that command.
OversizeRejected ==
    /\ [](/\ cmd.kind \in {CmdReadBlock, CmdWriteBlock}
          /\ Gt32(cmd.arg1, ToU32(XFLASH_BUF_SIZE))
          /\ ~(fpc \in WaitStates \/ fpc = "dispatch")
          => /\ fpc \in SendStates \cup SentStates
             /\ rsp = Response(RspErrorBufOverflow, Zero32, Zero32, Zero32)
             /\ bus = <<>>
             /\ ~csn)
    /\ [][ /\ fpc = "dispatch"
           /\ cmd.kind \in {CmdReadBlock, CmdWriteBlock}
           /\ Gt32(cmd.arg1, ToU32(XFLASH_BUF_SIZE))
           /\ fpc' # fpc
           => /\ fpc' = "sr_arg0"
              /\ UNCHANGED <<bus, csn, xflashbuf, xflash_, counts, chip, stack,
                             doorbell>> ]_vars

OversizeRejectedWitness ==
    /\ fpc = "sr_wait"
    /\ cmd = Command(CmdWriteBlock, Zero32, ToU32(XFLASH_BUF_SIZE + 1), Zero32)
    /\ doorbell.rsp.kind = RspErrorBufOverflow
    /\ xflashbuf.src = "host"

\* The end address of (offset, length) overflows 32 bits, or exceeds the
\* size of the supported part that was probed.
BadRange(offset, length) ==
    \/ Lt32(Sub32(Max32, offset), length)
    \/ /\ xflash_.valid
       /\ xflash_.info.supported
       /\ ~(/\ Le32(offset, xflash_.info.deviceSize)
            /\ Le32(length, Sub32(xflash_.info.deviceSize, offset)))

\* C9 as claimed: a block-read or block-write whose range overflows or ends
\* beyond the supported part is rejected with an error before any flash
\* access, so no SPI exchange happens for it and it is not answered Ok.
RangeRejectedBeforeFlash ==
    /\ cmd.kind \in {CmdReadBlock, CmdWriteBlock}
    /\ ~Gt32(cmd.arg1, ToU32(XFLASH_BUF_SIZE))
    /\ BadRange(cmd.arg0, cmd.arg1)
    /\ ~(fpc \in WaitStates)
    => /\ bus = <<>>
       /\ rsp.kind # RspOk

\* C10: for a supported part of size S, checkAddressRange(offset, length)
\* is true exactly when offset + length <= S, the sum taken without
\* wrapping; and (0xFFFFFFFF, 2) is rejected whatever the part.
RangeValidIffFits ==
    /\ rc.done /\ xflash_.valid /\ xflash_.info.supported =>
          (rc.result <=>
              /\ Le32(rc.offset, xflash_.info.deviceSize)
              /\ Le32(rc.length, Sub32(xflash_.info.deviceSize, rc.offset)))
    /\ rc.done /\ rc.offset = Max32 /\ rc.length = U32(0, 2) => ~rc.result

RangeValidIffFitsWitness ==
    /\ rc.done
    /\ rc.offset = Max32
    /\ rc.length = U32(0, 2)
    /\ xflash_.info.supported
    /\ xflash_.info.deviceSize = U32(16, 0)
    /\ ~rc.result

\* C11 as claimed: a part that is not supported keeps device size zero
\* and no offset/length pair passes checkAddressRange for it.
UnknownSizeRejected ==
    ~xflash_.info.supported =>
        /\ xflash_.info.deviceSize = Zero32
        /\ rc.done => ~rc.result

\* C12 as claimed: the response to XflashInfo for a part of the table that
\* was probed at construction has kind XflashInfo and carries the part's
\* manufacturer id, its device id and the device size of its table entry.
IdentifyCarriesSize ==
    \A hw \in supportedHw :
        /\ fpc \in SendStates
        /\ cmd.kind = CmdXflashInfo
        /\ ~chip.pd
        /\ part = <<hw.manfId, hw.devId>>
        => rsp = Response(RspXflashInfo, U32(0, hw.manfId), U32(0, hw.devId),
                          hw.deviceSize)

\* The kinds of Response that report an error.
ErrorKinds == {RspError, RspErrorSpi, RspErrorXflash, RspErrorBufOverflow}

\* C13 as claimed: when the ids the constructor read from the chip are not
\* in the table, the response to XflashInfo is an error that carries those
\* two id bytes.
UnsupportedCarriesProbedIds ==
    /\ fpc \in SendStates
    /\ cmd.kind = CmdXflashInfo
    /\ probed # NoProbe
    /\ probed \notin { <<hw.manfId, hw.devId>> : hw \in supportedHw }
    => /\ rsp.kind \in ErrorKinds
       /\ rsp.arg0 = U32(0, probed[1])
       /\ rsp.arg1 = U32(0, probed[2])

\* The commands that operate on the flash array, and the SPI opcodes that
\* read, program or erase it.
DataKinds == {CmdMassErase, CmdSectorErase, CmdReadBlock, CmdWriteBlock}

DataOps == {OpRead, OpProgram, OpErase4k, OpEraseAll}

\* C14 as claimed: once the constructor has closed the driver (the chip
\* is powered down), Loop::run never sees the part as supported, and a
\* data command is answered with an error without any read, program or
\* erase opcode having gone to the chip.
FailedProbeIsFinal ==
    chip.pd /\ fpc \in {"dispatch"} \cup SendStates =>
        /\ ~xflash_.info.supported
        /\ cmd.kind \in DataKinds /\ fpc \in SendStates =>
              /\ rsp.kind \in ErrorKinds
              /\ \A i \in 1..Len(bus) : bus[i].op \notin DataOps

\* C15: a data command whose length passed the buffer check is answered
\* Ok exactly when the driver operation returned true, and ErrorXflash
\* when it returned false; it gets no other kind.
OkIffDriverSucceeded ==
    /\ fpc \in SendStates
    /\ cmd.kind \in DataKinds
    /\ cmd.kind \in {CmdReadBlock, CmdWriteBlock} => ~TooLong(cmd.arg1)
    => /\ rsp.kind = RspOk <=> loc.ret
       /\ rsp.kind = RspErrorXflash <=> ~loc.ret
       /\ rsp.kind \in {RspOk, RspErrorXflash}

\* The second command, a write that went to the bus and failed, is being
\* answered ErrorXflash.
OkIffDriverSucceededWitness ==
    /\ fpc \in SendStates
    /\ cmd.kind = CmdWriteBlock
    /\ ~TooLong(cmd.arg1)
    /\ ~loc.ret
    /\ rsp.kind = RspErrorXflash
    /\ responded = 1
    /\ Len(bus) > 0

\* C16: in read, write, erase and massErase an SPI exchange that reported
\* failure is the last exchange of the operation (it is not tried again
\* and nothing follows it), and the operation returns false.
SpiFailurePropagates ==
    \A i \in 1..Len(bus) :
        ~bus[i].ok =>
            /\ i = Len(bus)
            /\ fpc = "op_ret" => ~loc.ret

\* An erase has returned to the dispatcher after the status read that
\* follows its erase opcode failed.
SpiFailurePropagatesWitness ==
    /\ fpc = "op_ret"
    /\ cmd.kind = CmdSectorErase
    /\ Len(bus) > 1
    /\ ~bus[Len(bus)].ok
    /\ \E i \in 1..Len(bus) : bus[i].op = OpErase4k

\* C17 as claimed: when every handle opened since the start of a sequence
\* has been closed again, and no other handle has been, every counter and
\* the power state of every domain and peripheral are what they were when
\* the sequence started, whatever the counters were then.
PairedRestores ==
    pre.marked /\ pre.paired /\ handles = pre.handles =>
        /\ counts = pre.counts
        /\ prcm.on = pre.on
        /\ prcm.run = pre.run

\* C18 as claimed: a peripheral whose counter is not zero has its parent
\* domain powered on.
DomainOnWhilePeriphActive ==
    \A periph \in Periphs :
        counts.periphs[periph] > 0 => prcm.on[getDomainDependency(periph)]

\* The peripherals beneath a domain of which a handle is alive.
HeldBeneath(domain) ==
    { periph \in Periphs :
        getDomainDependency(periph) = domain /\ handles.periphs[periph] > 0 }

\* C19 as claimed: opening a peripheral while its parent domain's counter
\* is zero makes that counter one; closing the last handle of a peripheral
\* leaves the parent domain's counter at zero when no handle of another
\* peripheral beneath the domain and no handle of the domain is alive.
DomainFollowsPeriph ==
    [][ \A periph \in ClientPeriphs :
          LET parent == getDomainDependency(periph)
          IN  /\ /\ handles'.periphs[periph] = handles.periphs[periph] + 1
                 /\ counts.domains[parent] = 0
                 => counts'.domains[parent] = 1
              /\ /\ handles.periphs[periph] = 1
                 /\ handles'.periphs[periph] = 0
                 /\ HeldBeneath(parent) = {periph}
                 /\ handles.domains[parent] = 0
                 => counts'.domains[parent] = 0 ]_vars

\* C20: opening a domain or a peripheral whose counter is max_dep_count
\* leaves every counter as it is, the one at max_dep_count included, and
\* issues no PRCM call: no domain and no peripheral clock changes state.
SaturatedOpenIsNoOp ==
    [][ /\ \A domain \in ClientDomains :
             /\ handles'.domains[domain] = handles.domains[domain] + 1
             /\ counts.domains[domain] = max_dep_count
             => /\ counts' = counts
                /\ prcm'.calls = <<>>
                /\ prcm'.on = prcm.on /\ prcm'.run = prcm.run
        /\ \A periph \in ClientPeriphs :
             /\ handles'.periphs[periph] = handles.periphs[periph] + 1
             /\ counts.periphs[periph] = max_dep_count
             => /\ counts' = counts
                /\ prcm'.calls = <<>>
                /\ prcm'.on = prcm.on /\ prcm'.run = prcm.run ]_vars

\* Ssi0 has just been opened with its counter at max_dep_count: one more
\* handle is alive than the counter tells, Serial is still counted once
\* and no PRCM call was made.
SaturatedOpenIsNoOpWitness ==
    /\ counts.periphs["ssi0"] = max_dep_count
    /\ handles.periphs["ssi0"] = max_dep_count + 1
    /\ counts.domains["serial"] = 1
    /\ prcm.on["serial"] /\ prcm.run["ssi0"]
    /\ prcm.calls = <<>>

\* C21 as claimed: for no resource have there been more clearDependency
\* calls than setDependency calls, and when no handle of a resource is
\* alive every setDependency call for it has had its one clearDependency.
ReleasedOnce ==
    \A k \in DOMAIN balance : \A r \in DOMAIN balance[k] :
        /\ balance[k][r] >= 0
        /\ handles[k][r] = 0 => balance[k][r] = 0

\* The value of a 32-bit word.
Val(a) == a[1] * Limb + a[2]

\* The addresses of the sector-erase instructions on the bus, in order.
Erased ==
    LET e == SelectSeq(bus, LAMBDA x : x.x = "write" /\ x.op = OpErase4k)
    IN  [i \in 1..Len(e) |-> e[i].addr]

\* n consecutive sectors from start, ascending.
Sectors(start, n) ==
    [i \in 1..n |-> Addr24(ToU32(start + (i - 1) * eraseSectorSize))]

\* erase(len, offset) has returned true to Loop::run.
EraseDone(offset, len) ==
    /\ fpc = "op_ret"
    /\ cmd = Command(CmdSectorErase, ToU32(offset), ToU32(len), Zero32)
    /\ loc.ret

\* C22 as claimed: an erase of length >= 1 that succeeded has issued
\* ceil((endOffset - alignedStart + 1) / sectorSize) sector erases, one per
\* consecutive sector from floor(offset / sectorSize) * sectorSize up.
ErasesEverySector ==
    \A i \in EraseInputs :
        (i[2] >= 1 /\ EraseDone(i[1], i[2])) =>
            LET endOffset == i[1] + i[2] - 1
                start == (i[1] \div eraseSectorSize) * eraseSectorSize
                n == (endOffset - start + 1 + eraseSectorSize - 1)
                         \div eraseSectorSize
            IN  Erased = Sectors(start, n)

\* C23 as claimed: erase(1, 0) that succeeded has erased exactly the
\* sector at offset 0.
ErasesFirstSector == EraseDone(0, 1) => Erased = Sectors(0, 1)

\* C24 as claimed: erase(1, 4095) that succeeded has erased exactly two
\* sectors, at 0 and at 4096.
ErasesTwoSectors == EraseDone(4095, 1) => Erased = Sectors(0, 2)

\* C24 amended: erase(1, 4095) that succeeded has erased exactly one
\* sector, the one at 0 that holds byte 4095.
ErasesOneSector == EraseDone(4095, 1) => Erased = Sectors(0, 1)

ErasesOneSectorWitness == EraseDone(4095, 1) /\ Len(Erased) = 1

\* The data phases of the page-program instructions on the bus, in order,
\* and their headers.
Programs == SelectSeq(bus, LAMBDA x : x.x = "data" /\ x.op = OpProgram)

ProgramHeaders == SelectSeq(bus, LAMBDA x : x.x = "write" /\ x.op = OpProgram)

\* The bytes sent by the instructions before the i-th.
RECURSIVE SentBefore(_)
SentBefore(i) == IF i <= 1 THEN 0 ELSE SentBefore(i - 1) + Programs[i - 1].n

\* write(buf, len, offset) is running or has returned to Loop::run.
Writing(offset, len) ==
    cmd = Command(CmdWriteBlock, ToU32(offset), ToU32(len), Zero32)

WriteDone(offset, len) == Writing(offset, len) /\ fpc = "op_ret" /\ loc.ret

\* C25: the page programs of a write are ascending, contiguous and
\* non-overlapping (each starts in the part and in the buffer where the
\* one before ended, the first at offset and at buf), a write that
\* succeeded has sent exactly len bytes, and one that crosses a page
\* boundary has sent more than one page program.
SplitReconstructs ==
    \A w \in WriteInputs :
        Writing(w[1], w[2]) =>
            /\ \A i \in 1..Len(Programs) :
                /\ Programs[i].n >= 1
                /\ Programs[i].buf = SentBefore(i)
                /\ Programs[i].addr = Addr24(ToU32(w[1] + SentBefore(i)))
            /\ WriteDone(w[1], w[2]) =>
                /\ SentBefore(Len(Programs) + 1) = w[2]
                /\ (w[1] \div programPageSize
                        # (w[1] + w[2] - 1) \div programPageSize)
                    => Len(Programs) >= 2

SplitReconstructsWitness == WriteDone(254, 4) /\ Len(Programs) = 2

\* C29: each page program sends min(pageSize - (offset mod pageSize),
\* remaining) bytes and ends within the page it starts in, and a write
\* that succeeded has sent one program instruction per page touched by
\* [offset, offset + length).
OnePerPage ==
    \A w \in WriteInputs :
        Writing(w[1], w[2]) =>
            /\ \A i \in 1..Len(Programs) :
                LET at == w[1] + SentBefore(i)
                IN  /\ Programs[i].n =
                           Min(programPageSize - (at % programPageSize),
                               w[2] - SentBefore(i))
                    /\ (Val(Programs[i].addr) % programPageSize) + Programs[i].n
                           <= programPageSize
            /\ WriteDone(w[1], w[2]) =>
                /\ Len(ProgramHeaders) = Len(Programs)
                /\ Len(ProgramHeaders) =
                       (w[1] + w[2] - 1) \div programPageSize
                           - w[1] \div programPageSize + 1

OnePerPageWitness == WriteDone(100, 600) /\ Len(ProgramHeaders) = 3

\* C26 as claimed: whenever the cached info says supported, its device
\* size is the size supportedHw lists for the cached manufacturer and
\* device id.
SizeOfCachedIds ==
    xflash_.info.supported =>
        \E hw \in supportedHw :
            /\ hw.manfId = xflash_.info.manfId
            /\ hw.devId = xflash_.info.devId
            /\ hw.deviceSize = xflash_.info.deviceSize

\* The PRCM calls of the step just taken.
Called(call, r) == \E i \in 1..Len(prcm'.calls) : prcm'.calls[i] = <<call, r>>

\* C27: a domain is powered on exactly by the step that takes its counter
\* from 0 to 1 and off exactly by the one that takes it from 1 to 0, a
\* peripheral clock is enabled and disabled likewise, no other step makes
\* a PRCM call, and in every state a domain is on and a peripheral clock
\* runs iff its counter is not zero (stated of the state every step
\* leads to; in the initial state all counters are zero and all is off).
PowerAtEdgesOnly ==
    [][/\ \A d \in Domains : prcm'.on[d] <=> counts'.domains[d] # 0
       /\ \A p \in Periphs : prcm'.run[p] <=> counts'.periphs[p] # 0
       /\ handles' # handles =>
            /\ \A d \in Domains :
                /\ Called("PRCMPowerDomainOn", d) <=>
                       (counts.domains[d] = 0 /\ counts'.domains[d] = 1)
                /\ Called("PRCMPowerDomainOff", d) <=>
                       (counts.domains[d] = 1 /\ counts'.domains[d] = 0)
                /\ prcm'.on[d] # prcm.on[d] =>
                       {counts.domains[d], counts'.domains[d]} = {0, 1}
            /\ \A p \in Periphs :
                /\ Called("PRCMPeripheralRunEnable", p) <=>
                       (counts.periphs[p] = 0 /\ counts'.periphs[p] = 1)
                /\ Called("PRCMPeripheralRunDisable", p) <=>
                       (counts.periphs[p] = 1 /\ counts'.periphs[p] = 0)
                /\ prcm'.run[p] # prcm.run[p] =>
                       {counts.periphs[p], counts'.periphs[p]} = {0, 1}]_vars

\* The Serial domain is on with two handles, and the step that led here
\* (not at an edge) made no PRCM call.
PowerAtEdgesOnlyWitness ==
    /\ handles.domains["serial"] = 2
    /\ counts.domains["serial"] = 2
    /\ prcm.on["serial"]
    /\ prcm.calls = <<>>

\* The position of a call among the PRCM calls of the step just taken, 0
\* when it was not made.
At(call, r) ==
    IF Called(call, r)
    THEN CHOOSE i \in 1..Len(prcm'.calls) : prcm'.calls[i] = <<call, r>>
    ELSE 0

\* C28: in the step that takes a peripheral's counter from 0 to 1 the
\* parent domain is on, or is powered on and seen on, before the clock is
\* enabled; in the step that takes it from 1 to 0 the clock is disabled
\* and the load is seen settled before the parent domain is powered off.
ParentOutlivesClock ==
    [][handles' # handles =>
        \A p \in Periphs :
            LET d == getDomainDependency(p)
            IN  /\ (counts.periphs[p] = 0 /\ counts'.periphs[p] = 1) =>
                    /\ Called("PRCMPeripheralRunEnable", p)
                    /\ prcm.on[d] \/ Called("PRCMPowerDomainsAllOn", d)
                    /\ Called("PRCMPowerDomainOn", d) =>
                        /\ At("PRCMPowerDomainOn", d)
                               < At("PRCMPowerDomainsAllOn", d)
                        /\ At("PRCMPowerDomainsAllOn", d)
                               < At("PRCMPeripheralRunEnable", p)
                /\ (counts.periphs[p] = 1 /\ counts'.periphs[p] = 0) =>
                    /\ Called("PRCMPeripheralRunDisable", p)
                    /\ At("PRCMPeripheralRunDisable", p) < At("PRCMLoadGet", p)
                    /\ Called("PRCMPowerDomainOff", d) =>
                        At("PRCMLoadGet", p) < At("PRCMPowerDomainOff", d)]_vars

\* The last Ssi0 handle was closed: its clock was disabled and then the
\* Serial domain, held by nothing else, was powered off.
ParentOutlivesClockWitness ==
    /\ counts.periphs["ssi0"] = 0
    /\ counts.domains["serial"] = 0
    /\ prcm.calls = RunDisable("ssi0") \o DomainOff("serial")

\* C30: the step that puts a page-program or sector-erase instruction on
\* the bus finds the write-enable instruction as the last exchange before
\* it and, right before that, the status read of waitReady that succeeded
\* and showed the write-in-progress bit clear.
ReadyThenEnabled ==
    [][(/\ Len(bus') = Len(bus) + 1
        /\ bus'[Len(bus')].x = "write"
        /\ bus'[Len(bus')].op \in {OpProgram, OpErase4k})
       => /\ Len(bus) >= 2
          /\ bus[Len(bus)].x = "write"
          /\ bus[Len(bus)].op = OpWriteEnable
          /\ bus[Len(bus) - 1].x = "read"
          /\ bus[Len(bus) - 1].op = OpReadStatus
          /\ bus[Len(bus) - 1].ok
          /\ ~loc.wip]_vars

\* The second sector erase of one operation is on the bus, after the wait
\* for the first one.
ReadyThenEnabledWitness ==
    /\ fpc = "er_deselect"
    /\ loc.i = 1
    /\ Len(Erased) = 2
    /\ bus[Len(bus)].op = OpErase4k

\* The positions read, write, erase, massErase, waitReady and writeEnable
\* return to.
ReturnedTo ==
    {"op_ret", "rd_ready", "wt_ready", "wt_enabled", "er_ready", "er_enabled",
     "me_ready", "me_enabled"}

\* C31: every exchange on the bus was made with chip select asserted, and
\* chip select is deasserted wherever a driver operation has returned,
\* with success or with failure.
Bracketed ==
    /\ \A i \in 1..Len(bus) : bus[i].csn
    /\ fpc \in ReturnedTo => ~csn

\* read has returned false after its data exchange failed.
BracketedWitness ==
    /\ fpc = "op_ret"
    /\ cmd.kind = CmdReadBlock
    /\ ~loc.ret
    /\ Len(bus) > 0
    /\ bus[Len(bus)].op = OpRead
    /\ ~bus[Len(bus)].ok

\* The constructor has made its probe: it is past its verifyPart() call,
\* in the close() that follows a failed one, or done.
AfterProbe ==
    /\ fpc \notin {"ps_select", "ps_write", "ps_deselect", "ct_awake", "ct_verified"}
    /\ stack # <<>> =>
        /\ stack[Len(stack)] \notin {"ct_awake", "ct_verified"}
        /\ stack[Len(stack)] = "ct_done" =>
              \E i \in 1..Len(bus) : \E j \in (i + 1)..Len(bus) :
                  bus[i].op = OpMdid /\ bus[j].op = OpDp

\* C32 as claimed: once the constructor has made its probe, no step sends
\* the identification opcode again and none changes the cached record.
ProbedOnce ==
    [][AfterProbe =>
          /\ xflash_' = xflash_
          /\ (bus' # bus /\ bus' # <<>>) => bus'[Len(bus')].op # OpMdid]_vars

\* C33 as claimed: whenever the controller has seen cmd.kind cleared after
\* writing a recognized command, the firmware has copied that command out
\* of the doorbell.
NoneLostAtStartup ==
    (cpc = "wait_rsp" /\ ccmd.kind \in RecognizedKinds) =>
        /\ accepted = issued
        /\ cmd = ccmd

\* The sectors that hold a byte of [offset, offset + len).
Intersecting(offset, len) ==
    IF len = 0 THEN {}
    ELSE { Addr24(ToU32(k * eraseSectorSize)) :
             k \in (offset \div eraseSectorSize)
                     ..((offset + len - 1) \div eraseSectorSize) }

\* C34 as claimed: an erase that succeeded has sent a sector erase for
\* exactly the sectors that hold a byte of [offset, offset + len), and
\* none when len is 0.
ErasesTheRange ==
    \A i \in EraseInputs :
        EraseDone(i[1], i[2]) =>
            { Erased[k] : k \in 1..Len(Erased) } = Intersecting(i[1], i[2])

\* C35 as claimed: a sector erase taken from the doorbell whose range
\* overflows 32 bits or ends beyond the supported part has no sector-erase
\* command on the bus, and is not answered Ok.
EraseRangeRejected ==
    /\ cmd.kind = CmdSectorErase
    /\ BadRange(cmd.arg0, cmd.arg1)
    => /\ \A i \in 1..Len(bus) : bus[i].op # OpErase4k
       /\ rsp.kind # RspOk

\* C36 as claimed: a domain with a live handle is commanded on and a
\* peripheral with a live handle has its clock enabled, however many
\* handles have been opened.
HeldIsPowered ==
    /\ \A domain \in Domains : handles.domains[domain] > 0 => prcm.on[domain]
    /\ \A periph \in Periphs : handles.periphs[periph] > 0 => prcm.run[periph]

\* C37 as claimed: when write, erase or massErase has returned success the
\* chip's write-in-progress bit is clear.
IdleWhenOk ==
    /\ fpc = "op_ret"
    /\ loc.ret
    /\ cmd.kind \in {CmdWriteBlock, CmdSectorErase, CmdMassErase}
    => ~chip.wip

RejectionsDistinct ==
    rc.done =>
        /\ Gt32(rc.length, ToU32(programPageSize)) =>
              rc.sent \notin {ErrorAddressRange, ErrorExtFlash, ErrorUnsupported}
        /\ ~Gt32(rc.length, ToU32(programPageSize)) /\ ~rc.result =>
              rc.sent \notin {ErrorBufferOverflow, ErrorExtFlash, ErrorUnsupported}

\* No counter is at max_dep_count.
NoneAtMax ==
    /\ \A domain \in Domains : counts.domains[domain] < max_dep_count
    /\ \A periph \in Periphs : counts.periphs[periph] < max_dep_count

\* Each counter is what the live handles make it.
Accounted ==
    /\ \A domain \in Domains :
          counts.domains[domain] =
              handles.domains[domain]
              + Cardinality({ periph \in Periphs :
                                /\ getDomainDependency(periph) = domain
                                /\ counts.periphs[periph] > 0 })
    /\ \A periph \in Periphs : counts.periphs[periph] = handles.periphs[periph]

\* C40: as long as no counter has reached max_dep_count, every domain
\* counter is the number of live handles of the domain plus the number of
\* its peripherals whose counter is not zero, and every peripheral counter
\* is the number of live handles of the peripheral: the step from a state
\* that is so accounted and has no counter at its maximum leads to a state
\* that is so accounted.
CountersAccounted == [][NoneAtMax /\ Accounted => Accounted']_vars

CountersAccountedWitness ==
    /\ NoneAtMax
    /\ Accounted
    /\ handles.domains["serial"] = 2
    /\ handles.periphs["ssi0"] = 2
    /\ handles.periphs["uart0"] = 1
    /\ counts.domains["serial"] = 4

====
